---- MODULE Spec2Model ----
(***************************************************************************)
(* State-machine model of the Flask backend of the fake news detector      *)
(* (src/fake_news_detector/training/backend/app.py and database.py): the   *)
(* rate limiter, the JSON prediction pipeline with its content-hash dedup, *)
(* the URL analysis route, the form prediction route, the statistics cache *)
(* and the session routes they depend on.                                  *)
(*                                                                         *)
(* The server runs threaded (app.run(threaded=True)): every request is     *)
(* handled by a worker, and workers interleave at every access to shared   *)
(* state (rate_limit_storage, the SQLite tables, the cache dict).  A       *)
(* handler is cut into steps at exactly those accesses; code that touches  *)
(* only the request's own locals is folded into the step that follows it.  *)
(***************************************************************************)
EXTENDS FiniteSets, Integers, Sequences, TLC

----------------------------------------------------------------------------
(* Bounds of the model *)

\* requests the server takes up in one behaviour
MaxServed == 3
\* clock: time.time() advances TickStep seconds per Tick, MaxTicks times
TickStep == 60
MaxTicks == 1
\* the decorator arguments rate_limit(max_requests=30) on /api/predict and
\* rate_limit(max_requests=20) on /api/analyze-url, scaled down in proportion
PredictMax == 2
AnalyzeMax == 1
\* calls of DatabaseManager.create_sample_data in one behaviour
SampleRuns == 1
\* width in bits of the signed integers SQLite binds (64 in the program)
SqliteIntBits == 16
\* runs of characters in a text handed to extract_title_from_text
MaxRuns == 4

(* Program constants *)

\* window=60 of both rate_limit decorators
RATE_WINDOW == 60
\* cache['stats']['ttl'] and cache['recent_cards']['ttl']
STATS_TTL == 300
RECENT_TTL == 60
\* len(news_text) < 10, len(news_text) > 10000 in predict_enhanced
MIN_TEXT_LEN == 10
MAX_TEXT_LEN == 10000
\* len(article_text) < 50 in analyze_url
MIN_ARTICLE_LEN == 50
\* len(username) < 3, len(password) < 6 in register
MIN_USERNAME_LEN == 3
MIN_PASSWORD_LEN == 6

Workers == {"w1", "w2"}
Clients == {"10.0.0.1"}

----------------------------------------------------------------------------
(* Texts.  A text is named by its trimmed content; TextLen is len() of it.  *)
(* A raw submission is a trimmed content plus surrounding whitespace.       *)

Texts == {"", "nine", "ten", "article", "toolong",
          "Scientists at MIT have developed", "BREAKING: Aliens have landed",
          "Scientists at MIT...", "BREAKING: Aliens...",
          "vote", "said", "the moon", "six topics", "one in ten", "late english"}

TextLen(t) ==
    CASE t = ""        -> 0
      [] t = "nine"    -> MIN_TEXT_LEN - 1
      [] t = "ten"     -> MIN_TEXT_LEN
      [] t = "article" -> MAX_TEXT_LEN
      [] t = "toolong" -> MAX_TEXT_LEN + 1
      [] t = "Scientists at MIT have developed" -> 258
      [] t = "BREAKING: Aliens have landed"     -> 237
      [] t = "Scientists at MIT..."             -> 20
      [] t = "BREAKING: Aliens..."              -> 19
      [] t = "vote"                             -> 4
      [] t = "said"                             -> 4
      [] t = "the moon"                         -> 8
      [] t = "six topics"                       -> 38
      [] t = "one in ten"                       -> 48
      [] t = "late english"                     -> 289

\* str.strip() of a raw string: a trimmed content (body) with pad whitespace
\* characters around it
Strip(raw) == raw.body

\* hashlib.md5(text.encode('utf-8')).hexdigest(): a digest, distinct for the
\* distinct texts of the model
generate_content_hash(text) == <<"md5", text>>

\* word repeated n times
Rep(word, n) == [i \in 1..n |-> word]

\* text.split(): the words of a text.  "nine", "ten", "article" and "toolong"
\* are single words of their length; the two sample texts are those of
\* create_sample_data, the two abbreviations the literals it hashes
Words(t) ==
    CASE t = "" -> <<>>
      [] t \in {"nine", "ten", "article", "toolong", "vote", "said"} -> <<t>>
      [] t = "Scientists at MIT..." -> <<"Scientists", "at", "MIT...">>
      [] t = "BREAKING: Aliens..."  -> <<"BREAKING:", "Aliens...">>
      [] t = "the moon"     -> <<"the", "moon">>
      [] t = "six topics"   -> <<"vote", "doctor", "computer", "game", "market", "movie">>
      [] t = "one in ten"   -> <<"the">> \o Rep("moon", 9)
      [] t = "late english" -> Rep("moon", 50) \o Rep("the", 10)
      [] t = "Scientists at MIT have developed" ->
           <<"Scientists", "at", "MIT", "have", "developed", "a", "new",
           "artificial", "intelligence", "system", "that", "can",
           "detect", "fake", "news", "with", "95%", "accuracy.", "The",
           "system", "uses", "advanced", "natural", "language",
           "processing", "techniques", "to", "analyze", "text",
           "patterns", "and", "cross-reference", "information", "with",
           "reliable", "sources.">>
      [] t = "BREAKING: Aliens have landed" ->
           <<"BREAKING:", "Aliens", "have", "landed", "in", "Times",
           "Square", "and", "are", "demanding", "to", "speak", "with",
           "world", "leaders.", "Witnesses", "report", "seeing", "flying",
           "saucers", "and", "strange", "beings", "with", "green",
           "skin.", "The", "government", "is", "allegedly", "covering",
           "up", "the", "incident", "to", "prevent", "panic.">>

\* str.lower() of a word; the words not listed are in lower case
Lower(word) ==
    CASE word = "Aliens" -> "aliens"
      [] word = "Aliens..." -> "aliens..."
      [] word = "BREAKING:" -> "breaking:"
      [] word = "MIT" -> "mit"
      [] word = "MIT..." -> "mit..."
      [] word = "Scientists" -> "scientists"
      [] word = "Square" -> "square"
      [] word = "The" -> "the"
      [] word = "Times" -> "times"
      [] word = "Witnesses" -> "witnesses"
      [] OTHER -> word

\* the keywords of the ten categories that occur in a word in lower case
\* (keyword in text_lower is a substring test: 'ai' occurs in 'said'); no
\* keyword occurs in a word not listed
KeywordsIn(word) ==
    CASE word = "computer" -> {"computer"}
      [] word = "doctor" -> {"doctor"}
      [] word = "game" -> {"game"}
      [] word = "government" -> {"government"}
      [] word = "green" -> {"green"}
      [] word = "market" -> {"market"}
      [] word = "movie" -> {"movie"}
      [] word = "said" -> {"ai"}
      [] word = "scientists" -> {"scientist"}
      [] word = "techniques" -> {"tech"}
      [] word = "vote" -> {"vote"}
      [] word = "world" -> {"world"}
      [] OTHER -> {}

\* the keywords that occur in text.lower(): those of one word occur in a
\* word of the text, the one keyword of two words in two words that follow
\* each other
KeywordsInText(text) ==
    LET words == Words(text)
    IN  UNION {KeywordsIn(Lower(words[i])) : i \in 1..Len(words)}
          \cup {k \in {"artificial intelligence"} :
                  \E i \in 1..(Len(words) - 1) :
                     /\ Lower(words[i]) = "artificial"
                     /\ Lower(words[i + 1]) = "intelligence"}

\* the categories dict of enhanced_extract_tags_from_text, in its order
categories ==
    << [category |-> "politics",
        keywords |-> {"election", "government", "president", "congress", "senate", "vote", "policy", "democrat", "republican"}],
       [category |-> "health",
        keywords |-> {"doctor", "hospital", "medicine", "vaccine", "virus", "disease", "treatment", "medical", "covid"}],
       [category |-> "technology",
        keywords |-> {"computer", "software", "internet", "ai", "artificial intelligence", "robot", "tech", "digital"}],
       [category |-> "sports",
        keywords |-> {"football", "basketball", "baseball", "soccer", "game", "team", "player", "championship", "olympic"}],
       [category |-> "business",
        keywords |-> {"company", "market", "stock", "economy", "finance", "investment", "profit", "business", "corporate"}],
       [category |-> "entertainment",
        keywords |-> {"movie", "music", "celebrity", "actor", "singer", "film", "show", "entertainment", "hollywood"}],
       [category |-> "science",
        keywords |-> {"research", "study", "scientist", "discovery", "experiment", "university", "academic", "journal"}],
       [category |-> "environment",
        keywords |-> {"climate", "environment", "pollution", "green", "renewable", "carbon", "sustainability"}],
       [category |-> "crime",
        keywords |-> {"police", "arrest", "crime", "criminal", "court", "judge", "law", "legal", "investigation"}],
       [category |-> "international",
        keywords |-> {"country", "nation", "international", "global", "world", "foreign", "embassy", "diplomatic"}] >>

\* enhanced_extract_tags_from_text(text, max_tags=5): the categories of which
\* a keyword occurs in the text, in the order of the dict, cut to max_tags
enhanced_extract_tags_from_text(text) ==
    LET in_text == KeywordsInText(text)
        Found(c) == \E keyword \in c.keywords : keyword \in in_text
        found_tags == SelectSeq(categories, Found)
        max_tags == 5
    IN  [i \in 1..(IF Len(found_tags) < max_tags THEN Len(found_tags) ELSE max_tags)
           |-> found_tags[i].category]

\* the english_words list of detect_language
english_words ==
    {"the", "and", "or", "but", "in", "on", "at", "to", "for", "of", "with", "by"}

\* text.lower().split()[:50]
FirstWords(text, n) ==
    LET words == Words(text)
    IN  [i \in 1..(IF Len(words) < n THEN Len(words) ELSE n) |-> Lower(words[i])]

\* detect_language(text): 'en' if english_count > len(words) * 0.1, in tenths
detect_language(text) ==
    LET words == FirstWords(text, 50)
        english_count == Cardinality({i \in 1..Len(words) : words[i] \in english_words})
    IN  IF 10 * english_count > Len(words) THEN "en" ELSE "unknown"

\* model.predict(vectorizer.transform([clean_text(text)]))[0]: the pre-trained
\* classifier is a fixed function of the text
Classify(text) == IF text \in {"ten", "toolong"} THEN "FAKE" ELSE "REAL"

\* float(max(model.predict_proba(transformed)[0])), in hundredths: a fixed
\* function of the text as well
Confidence(text) == IF text \in {"ten", "toolong"} THEN 97 ELSE 74

\* extract_entities(text): the matches of the three capitalised patterns, of
\* which the texts sent to the handlers in the model have none
extract_entities(text) ==
    [persons |-> <<>>, organizations |-> <<>>, locations |-> <<>>]

\* datetime.datetime.now() as stored with a record: the model keeps that a
\* record has a timestamp, not the instant
Timestamp == "datetime"

\* dict.get(key, default)
Get(dict, key, default) == IF key \in DOMAIN dict THEN dict[key] ELSE default

----------------------------------------------------------------------------
(* Accounts *)

NoUser == "<none>"
Anonymous == "anonymous"

\* forms posted to /register: complete, and one failing each kind of check
RegisterForms ==
    {[username |-> "alice", email |-> "alice@example.com",
      password |-> "secret1", confirm_password |-> "secret1"],
     [username |-> "", email |-> "alice@example.com",
      password |-> "secret1", confirm_password |-> "secret1"],
     [username |-> "alice", email |-> "",
      password |-> "secret1", confirm_password |-> "secret1"],
     [username |-> "al", email |-> "alice@example.com",
      password |-> "secret1", confirm_password |-> "secret1"],
     [username |-> "alice", email |-> "alice@example.com",
      password |-> "pw", confirm_password |-> "pw"],
     [username |-> "alice", email |-> "alice@example.com",
      password |-> "secret1", confirm_password |-> ""]}

\* forms posted to /login
LoginForms ==
    {[username |-> "alice", password |-> "secret1"],
     [username |-> "alice", password |-> "pw"],
     [username |-> "", password |-> ""]}

StrLen(s) ==
    CASE s = ""        -> 0
      [] s = "al"      -> 2
      [] s = "bob"     -> 3
      [] s = "pw"      -> 2
      [] s = "alice"   -> 5
      [] s = "admin"   -> 5
      [] s = "secret1" -> 7
      [] s = "secret2" -> 7
      [] OTHER         -> 8

\* werkzeug generate_password_hash / check_password_hash
generate_password_hash(password) == <<"pbkdf2", password>>
check_password_hash(pwhash, password) == pwhash = <<"pbkdf2", password>>

----------------------------------------------------------------------------
VARIABLES
    now,                 \* time.time(), seconds
    rate_limit_storage,  \* client ip -> list of request times
    users,               \* rows of table users
    predictions,         \* rows of table predictions
    nextId,              \* next AUTOINCREMENT id of predictions
    cache,               \* cache name -> [data, timestamp, ttl]
    session,             \* client -> session['username'] or NoUser
    req,                 \* worker -> the request it is handling
    resp,                \* the response the last step sent, if any
    served               \* requests taken up so far

\* History of a behaviour.  No action of the program reads these.
VARIABLES
    admitted,            \* requests the limiter let through within the last
                         \* RATE_WINDOW seconds: route, client, instant
    invalidated,         \* COUNT(*) of predictions when 'stats' was last set to None
    last,                \* client -> its last /api/predict answer: text and card id
    began,               \* worker -> last[client] when its request came in
    seen,                \* the last answer of /api/cards/stats given with no
                         \* write since its request came in: value and instant
    watch,               \* worker -> of its /api/cards/stats request: seen when
                         \* it came in, and whether no write has happened since
    limited              \* client -> the oldest timestamp the limiter held for it
                         \* when it last rejected the client, none admitted since

\* The card projection taken alone
VARIABLES
    projecting,          \* the record handed to generate_card_data, or the
                         \* text handed to extract_title_from_text
    projected            \* what generate_card_data did with it

prog == <<now, rate_limit_storage, users, predictions, nextId, cache, session,
          req, resp, served>>
hist == <<admitted, invalidated, last, began, seen, watch, limited>>
proj == <<projecting, projected>>
vars == <<prog, hist, proj>>

\* Python's None, where a record may stand instead
None == [none |-> TRUE]

\* a worker with no request.  Of a request in hand: pc is the handler
\* position, ep the route, ip, user and body the request's client address,
\* session username and payload, cur_time the limiter's current_time; news,
\* stats and card are the handler's locals
Idle ==
    [pc |-> "idle", ep |-> "none", ip |-> "none", user |-> NoUser, body |-> None,
     cur_time |-> 0, news |-> "", stats |-> None, card |-> None]

\* no response sent by the last step.  Of a response: the request it answers (ep, ip,
\* user, body), the HTTP status, the cached flag, the card or statistics
\* returned, the text analysed, whether the classifier was called and how
\* the store write ended ("none", "ok", "failed"); of the answer of a page
\* route, page is the redirect, template or text returned and store the
\* calls of DatabaseManager the handler made
NoResponse ==
    [ep |-> "none", ip |-> "none", user |-> NoUser, body |-> None, news |-> "",
     status |-> 0, cached |-> FALSE, card |-> None, stats |-> None,
     classified |-> FALSE, save |-> "none", pagination |-> None,
     envelope |-> None, page |-> None, store |-> {}]

Init ==
    /\ now = 0
    /\ rate_limit_storage = [c \in Clients |-> <<>>]
    /\ users = {}
    /\ predictions = {}
    /\ nextId = 1
    /\ cache = [k \in {"stats", "recent_cards"} |->
                  [data |-> None, timestamp |-> 0,
                   ttl |-> IF k = "stats" THEN STATS_TTL ELSE RECENT_TTL]]
    /\ session = [c \in Clients |-> NoUser]
    /\ req = [w \in Workers |-> Idle]
    /\ resp = NoResponse
    /\ served = 0
    /\ admitted = <<>>
    /\ invalidated = 0
    /\ last = [c \in Clients |-> None]
    /\ began = [w \in Workers |-> None]
    /\ seen = None
    /\ watch = [w \in Workers |-> None]
    /\ limited = [c \in Clients |-> None]
    /\ projecting = None
    /\ projected = None

----------------------------------------------------------------------------
(* Request bodies *)

\* what a POST to a JSON route may carry: no JSON content type, an empty
\* JSON value, a JSON object without the required field, or the field
PredictBodies ==
    {[kind |-> k, text |-> [body |-> "", pad |-> 0]] : k \in {"not_json", "missing"}}
      \cup {[kind |-> "ok", text |-> t] :
              t \in {[body |-> "nine", pad |-> 1], [body |-> "ten", pad |-> 0],
                     [body |-> "toolong", pad |-> 0]}}

\* a POST with content type application/json whose body does not parse
MalformedBodies == {[kind |-> "malformed", text |-> [body |-> "", pad |-> 0]]}

Urls == {"ftp://example.com/a", "https://example.com/a"}

AnalyzeBodies ==
    {[kind |-> "missing", url |-> ""]} \cup {[kind |-> "ok", url |-> u] : u \in Urls}

\* what extract_article_from_url may return for a fetched page
Extractions ==
    {[success |-> FALSE, content |-> ""]}
      \cup {[success |-> TRUE, content |-> t] : t \in {"ten", "article"}}

\* texts typed into the form of /predict
FormBodies ==
    {[kind |-> "form", text |-> t] :
       t \in {[body |-> "", pad |-> 1], [body |-> "nine", pad |-> 0],
              [body |-> "ten", pad |-> 1]}}

\* a store write commits, or raises (sqlite3.OperationalError)
StoreOutcomes == {"ok", "error"}

\* validate_json_input(required_fields): TRUE when the handler is entered
validate_json_input(body) == body.kind = "ok"

\* request.get_json() in validate_json_input, called without silent=True:
\* it raises werkzeug's BadRequest on a body that does not parse
get_json_raises(body) == body.kind = "malformed"

----------------------------------------------------------------------------
(* Requests and responses *)

\* a free worker takes up the next request
Accept(w) ==
    /\ req[w].pc = "idle"
    /\ served < MaxServed
    /\ served' = served + 1

\* the request of route ep a client at ip sends with body
Request(ep, ip, body) ==
    [Idle EXCEPT !.ep = ep, !.ip = ip, !.user = session[ip], !.body = body]

\* the response to request r with this status
Response(r, status) ==
    [NoResponse EXCEPT !.ep = r.ep, !.ip = r.ip, !.user = r.user, !.body = r.body,
                       !.news = r.news, !.status = status]

\* error_response(message, code): the JSON body {error, message, timestamp,
\* code} sent with status code; the model keeps error and code of it
error_response(r, code) ==
    [Response(r, code) EXCEPT !.envelope = [error |-> TRUE, code |-> code]]

\* the page werkzeug renders for an HTTPException no errorhandler is
\* registered for (400 Bad Request): HTML, no JSON body
http_exception_page(r, code) == Response(r, code)

\* the worker sends response and is free again
Send(w, response) ==
    /\ resp' = response
    /\ req' = [req EXCEPT ![w] = Idle]

\* the worker goes on with its request at the next position; nothing is sent
Goto(w, r) ==
    /\ req' = [req EXCEPT ![w] = r]
    /\ resp' = NoResponse

----------------------------------------------------------------------------
(* Rate limiter: rate_limit(max_requests, window) *)

\* @rate_limit(max_requests=..., window=60) of the two limited routes
MaxRequests(ep) == IF ep = "predict" THEN PredictMax ELSE AnalyzeMax

\* [t for t in rate_limit_storage[client_ip] if current_time - t < window]
PruneWindow(times, current_time, window) ==
    LET Recent(t) == current_time - t < window
    IN  SelectSeq(times, Recent)

\* decorated_function, before the lock: client_ip and current_time are read
RateEnter(w, ep, ip, body) ==
    /\ Accept(w)
    /\ \/ ep = "predict" /\ body \in PredictBodies \cup MalformedBodies
       \/ ep = "analyze_url" /\ body \in AnalyzeBodies
    /\ Goto(w, [Request(ep, ip, body) EXCEPT !.pc = "rate", !.cur_time = now])
    /\ UNCHANGED <<now, rate_limit_storage, users, predictions, nextId, cache, session>>

\* the block under the lock, were it to record the attempt it rejects
RateLimit_recording_rejected(w) ==
    /\ req[w].pc = "rate"
    /\ LET r == req[w]
           pruned == PruneWindow(rate_limit_storage[r.ip], r.cur_time, RATE_WINDOW)
       IN  IF Len(pruned) >= MaxRequests(r.ep)
           THEN /\ rate_limit_storage' =
                     [rate_limit_storage EXCEPT ![r.ip] = Append(pruned, r.cur_time)]
                /\ Send(w, error_response(r, 429))
           ELSE /\ rate_limit_storage' =
                     [rate_limit_storage EXCEPT ![r.ip] = Append(pruned, r.cur_time)]
                /\ Goto(w, [r EXCEPT !.pc = "handler", !.cur_time = 0])
    /\ UNCHANGED <<now, users, predictions, nextId, cache, session, served>>

\* decorated_function, the block under rate_limit_lock: prune, check, record
RateLimit(w) ==
    /\ req[w].pc = "rate"
    /\ LET r == req[w]
           pruned == PruneWindow(rate_limit_storage[r.ip], r.cur_time, RATE_WINDOW)
       IN  IF Len(pruned) >= MaxRequests(r.ep)
           THEN /\ rate_limit_storage' = [rate_limit_storage EXCEPT ![r.ip] = pruned]
                /\ Send(w, error_response(r, 429))
           ELSE /\ rate_limit_storage' =
                     [rate_limit_storage EXCEPT ![r.ip] = Append(pruned, r.cur_time)]
                /\ Goto(w, [r EXCEPT !.pc = "handler", !.cur_time = 0])
    /\ UNCHANGED <<now, users, predictions, nextId, cache, session, served>>

----------------------------------------------------------------------------
(* Store: DatabaseManager *)

\* SELECT * FROM predictions WHERE content_hash = ?; fetchone(): the row of
\* lowest rowid among the matches, or None
get_prediction_by_hash(content_hash) ==
    LET hits == {p \in predictions : p.content_hash = content_hash}
    IN  IF hits = {} THEN None
        ELSE CHOOSE p \in hits : \A q \in hits : p.id <= q.id

\* the row INSERTed by create_prediction for prediction_data, with its
\* lastrowid: every column the data does not supply takes the default of
\* prediction_data.get (0.85 is written 85, '' for the hash <<>>)
InsertedRow(prediction_data, id) ==
    [id |-> id, username |-> prediction_data.username, news |-> prediction_data.news,
     prediction |-> prediction_data.prediction,
     confidence |-> Get(prediction_data, "confidence", 85),
     timestamp |-> Get(prediction_data, "timestamp", Timestamp),
     source |-> Get(prediction_data, "source", "Web Interface"),
     category |-> Get(prediction_data, "category", "General"),
     tags |-> Get(prediction_data, "tags", <<>>),
     language |-> Get(prediction_data, "language", "en"),
     word_count |-> Get(prediction_data, "word_count", 0),
     character_count |-> Get(prediction_data, "character_count", 0),
     content_hash |-> Get(prediction_data, "content_hash", <<>>),
     entities |-> Get(prediction_data, "entities", <<>>),
     model_version |-> Get(prediction_data, "model_version", "1.0")]

\* create_prediction, were it to run its INSERT twice
create_prediction_twice(prediction_data, outcome) ==
    IF outcome = "ok"
    THEN /\ predictions' = predictions \cup {InsertedRow(prediction_data, nextId),
                                              InsertedRow(prediction_data, nextId + 1)}
         /\ nextId' = nextId + 2
    ELSE UNCHANGED <<predictions, nextId>>

\* db.create_prediction(prediction_data): the INSERT commits or raises
create_prediction(prediction_data, outcome) ==
    IF outcome = "ok"
    THEN /\ predictions' = predictions \cup {InsertedRow(prediction_data, nextId)}
         /\ nextId' = nextId + 1
    ELSE UNCHANGED <<predictions, nextId>>

\* get_statistics(): COUNT(*) and the counts GROUP BY prediction
get_statistics ==
    [total_predictions |-> Cardinality(predictions),
     by_prediction |-> [l \in {p.prediction : p \in predictions} |->
                          Cardinality({p \in predictions : p.prediction = l})]]

----------------------------------------------------------------------------
(* Cache *)

\* get_cached_data(cache_key): the data when present and younger than ttl
get_cached_data(cache_key) ==
    LET cache_entry == cache[cache_key]
    IN  IF cache_entry.data # None /\ now - cache_entry.timestamp < cache_entry.ttl
        THEN cache_entry.data
        ELSE None

\* set_cached_data(cache_key, data)
set_cached_data(cache_key, data) ==
    cache' = [cache EXCEPT ![cache_key].data = data, ![cache_key].timestamp = now]

----------------------------------------------------------------------------
(* Card projection *)

\* the keys generate_card_data reads with prediction_record[...]
SubscriptedKeys == {"news", "id", "prediction", "timestamp", "username"}

\* the projection, were its word count to default to 0 as the store's does
generate_card_data_counts_zero(prediction_record) ==
    IF SubscriptedKeys \subseteq DOMAIN prediction_record
    THEN LET news_text == prediction_record.news
         IN  [raised |-> FALSE,
              card |-> [id |-> prediction_record.id,
                        content |-> news_text,
                        prediction |-> prediction_record.prediction,
                        confidence |-> Get(prediction_record, "confidence", 85),
                        timestamp |-> prediction_record.timestamp,
                        username |-> prediction_record.username,
                        source |-> Get(prediction_record, "source", "User Submission"),
                        category |-> Get(prediction_record, "category", "General"),
                        tags |-> Get(prediction_record, "tags", <<>>),
                        language |-> Get(prediction_record, "language", "en"),
                        word_count |-> Get(prediction_record, "word_count", 0),
                        character_count |-> Get(prediction_record, "character_count",
                                                TextLen(news_text)),
                        content_hash |-> Get(prediction_record, "content_hash",
                                             generate_content_hash(news_text)),
                        entities |-> Get(prediction_record, "entities", <<>>),
                        model_version |-> Get(prediction_record, "model_version", "1.0")]]
    ELSE [raised |-> TRUE, card |-> None]

\* generate_card_data(prediction_record): a subscript raises KeyError on a
\* record without the key (prediction_record['id'] on a record that was never
\* given an id); every other field is read with .get and a default.  The
\* title and the image URL, functions of the text and of the label alone, are
\* not kept in the card of the model.
generate_card_data(prediction_record) ==
    IF SubscriptedKeys \subseteq DOMAIN prediction_record
    THEN LET news_text == prediction_record.news
         IN  [raised |-> FALSE,
              card |-> [id |-> prediction_record.id,
                        content |-> news_text,
                        prediction |-> prediction_record.prediction,
                        confidence |-> Get(prediction_record, "confidence", 85),
                        timestamp |-> prediction_record.timestamp,
                        username |-> prediction_record.username,
                        source |-> Get(prediction_record, "source", "User Submission"),
                        category |-> Get(prediction_record, "category", "General"),
                        tags |-> Get(prediction_record, "tags", <<>>),
                        language |-> Get(prediction_record, "language", "en"),
                        word_count |-> Get(prediction_record, "word_count",
                                           Len(Words(news_text))),
                        character_count |-> Get(prediction_record, "character_count",
                                                TextLen(news_text)),
                        content_hash |-> Get(prediction_record, "content_hash",
                                             generate_content_hash(news_text)),
                        entities |-> Get(prediction_record, "entities", <<>>),
                        model_version |-> Get(prediction_record, "model_version", "1.0")]]
    ELSE [raised |-> TRUE, card |-> None]

----------------------------------------------------------------------------
(* POST /api/predict: predict_enhanced *)

\* the length checks without the one on the minimum
text_length_ok_no_minimum(news_text) ==
    ~(TextLen(news_text) > MAX_TEXT_LEN)

\* the two length checks on the trimmed text
text_length_ok(news_text) ==
    /\ ~(TextLen(news_text) < MIN_TEXT_LEN)
    /\ ~(TextLen(news_text) > MAX_TEXT_LEN)

\* the duplicate branch, were it to call set_cached_data('stats', None) as the
\* branch that writes does
DedupHit_invalidating(w, news_text, existing_prediction) ==
    /\ Send(w, [Response(req[w], 200) EXCEPT
                  !.news = news_text,
                  !.card = generate_card_data(existing_prediction).card,
                  !.cached = TRUE])
    /\ set_cached_data("stats", None)
    /\ UNCHANGED <<predictions, nextId>>

\* if existing_prediction: the stored record's card, flagged cached
DedupHit(w, news_text, existing_prediction) ==
    /\ Send(w, [Response(req[w], 200) EXCEPT
                  !.news = news_text,
                  !.card = generate_card_data(existing_prediction).card,
                  !.cached = TRUE])
    /\ UNCHANGED <<predictions, nextId, cache>>

\* the same, were a validation failure to give the rate-limit slot back
PredictLookup_refunding(w) ==
    /\ req[w].pc = "handler"
    /\ req[w].ep = "predict"
    /\ LET ip == req[w].ip
           refunded == [rate_limit_storage EXCEPT
                          ![ip] = SubSeq(@, 1, Len(@) - 1)]
       IN  IF ~validate_json_input(req[w].body)
           THEN /\ Send(w, error_response(req[w], 400))
                /\ rate_limit_storage' = refunded
                /\ UNCHANGED <<predictions, nextId, cache>>
           ELSE LET news_text == Strip(req[w].body.text)
                    content_hash == generate_content_hash(news_text)
                    existing_prediction == get_prediction_by_hash(content_hash)
                IN  IF ~text_length_ok(news_text)
                    THEN /\ Send(w, error_response([req[w] EXCEPT !.news = news_text], 400))
                         /\ rate_limit_storage' = refunded
                         /\ UNCHANGED <<predictions, nextId, cache>>
                    ELSE IF existing_prediction # None
                    THEN /\ DedupHit(w, news_text, existing_prediction)
                         /\ UNCHANGED rate_limit_storage
                    ELSE /\ Goto(w, [req[w] EXCEPT !.pc = "persist", !.news = news_text])
                         /\ UNCHANGED <<rate_limit_storage, predictions, nextId, cache>>
    /\ UNCHANGED <<now, users, session, served>>

\* validate_json_input, the length checks and the duplicate lookup
PredictLookup(w) ==
    /\ req[w].pc = "handler"
    /\ req[w].ep = "predict"
    /\ IF get_json_raises(req[w].body)
       THEN /\ Send(w, http_exception_page(req[w], 400))
            /\ UNCHANGED <<predictions, nextId, cache>>
       ELSE IF ~validate_json_input(req[w].body)
       THEN /\ Send(w, error_response(req[w], 400))
            /\ UNCHANGED <<predictions, nextId, cache>>
       ELSE LET news_text == Strip(req[w].body.text)
                content_hash == generate_content_hash(news_text)
                existing_prediction == get_prediction_by_hash(content_hash)
            IN  IF ~text_length_ok(news_text)
                THEN /\ Send(w, error_response([req[w] EXCEPT !.news = news_text], 400))
                     /\ UNCHANGED <<predictions, nextId, cache>>
                ELSE IF existing_prediction # None
                THEN DedupHit(w, news_text, existing_prediction)
                ELSE /\ Goto(w, [req[w] EXCEPT !.pc = "persist", !.news = news_text])
                     /\ UNCHANGED <<predictions, nextId, cache>>
    /\ UNCHANGED <<now, rate_limit_storage, users, session, served>>

\* the prediction_record assembled by predict_enhanced and by analyze_url,
\* before it has an id
PredictionRecord(username, news, source) ==
    [username |-> username, news |-> news, prediction |-> Classify(news),
     confidence |-> Confidence(news), timestamp |-> Timestamp,
     source |-> source, category |-> "General",
     tags |-> enhanced_extract_tags_from_text(news),
     language |-> detect_language(news), entities |-> extract_entities(news),
     content_hash |-> generate_content_hash(news), model_version |-> "1.0",
     word_count |-> Len(Words(news)), character_count |-> TextLen(news)]

\* the prediction_data assembled by the form route
FormRecord(username, news) ==
    [username |-> username, news |-> news, prediction |-> Classify(news),
     confidence |-> Confidence(news), timestamp |-> Timestamp,
     source |-> "Web Interface", model_version |-> "1.0",
     word_count |-> Len(Words(news)), character_count |-> TextLen(news),
     content_hash |-> generate_content_hash(news)]

\* try: prediction_id = db.create_prediction(prediction_record);
\*      prediction_record['id'] = prediction_id
\* except: log and continue.  The record the handler goes on with.
SavedRecord(prediction_record, outcome) ==
    IF outcome = "ok"
    THEN InsertedRow(prediction_record, nextId)
    ELSE prediction_record

\* session.get('username', 'anonymous')
SessionUsername(r) == IF r.user = NoUser THEN Anonymous ELSE r.user

\* the same, were it to run without waiting for the duplicate lookup
PredictPersist_unchecked(w, outcome) ==
    /\ req[w].pc \in {"handler", "persist"}
    /\ req[w].ep = "predict"
    /\ LET r == req[w]
           prediction_record == PredictionRecord(SessionUsername(r), r.news, "API")
           card_data == generate_card_data(SavedRecord(prediction_record, outcome))
       IN  /\ create_prediction(prediction_record, outcome)
           /\ IF card_data.raised
              THEN Send(w, [error_response(r, 500) EXCEPT
                              !.classified = TRUE, !.save = "failed"])
              ELSE Goto(w, [r EXCEPT !.pc = "invalidate", !.card = card_data.card])
    /\ UNCHANGED <<now, rate_limit_storage, users, cache, session, served>>

\* classification, record assembly, the store write and the card
PredictPersist(w, outcome) ==
    /\ req[w].pc = "persist"
    /\ LET r == req[w]
           prediction_record == PredictionRecord(SessionUsername(r), r.news, "API")
           card_data == generate_card_data(SavedRecord(prediction_record, outcome))
       IN  /\ create_prediction(prediction_record, outcome)
           /\ IF card_data.raised
              THEN Send(w, [error_response(r, 500) EXCEPT
                              !.classified = TRUE, !.save = "failed"])
              ELSE Goto(w, [r EXCEPT !.pc = "invalidate", !.card = card_data.card])
    /\ UNCHANGED <<now, rate_limit_storage, users, cache, session, served>>

\* explanation, similar articles, set_cached_data('stats', None), response
PredictInvalidate(w) ==
    /\ req[w].pc = "invalidate"
    /\ set_cached_data("stats", None)
    /\ Send(w, [Response(req[w], 200) EXCEPT
                  !.card = req[w].card, !.classified = TRUE, !.save = "ok"])
    /\ UNCHANGED <<now, rate_limit_storage, users, predictions, nextId, session, served>>

----------------------------------------------------------------------------
(* POST /api/analyze-url: analyze_url *)

AnalyzeUrl(w, extraction_result, outcome) ==
    /\ req[w].pc = "handler"
    /\ req[w].ep = "analyze_url"
    /\ LET r == req[w]
           rejected == \/ ~validate_json_input(r.body)
                       \/ r.body.url = "ftp://example.com/a"
                       \/ ~extraction_result.success
                       \/ TextLen(extraction_result.content) < MIN_ARTICLE_LEN
           article_text == extraction_result.content
           prediction_record ==
               [PredictionRecord(SessionUsername(r), article_text, "example.com")
                  EXCEPT !.category = "URL Analysis"]
           card_data == generate_card_data(SavedRecord(prediction_record, outcome))
           done == [r EXCEPT !.news = article_text]
       IN  IF rejected
           THEN /\ Send(w, error_response(r, 400))
                /\ UNCHANGED <<predictions, nextId>>
           ELSE /\ create_prediction(prediction_record, outcome)
                /\ IF card_data.raised
                   THEN Send(w, [error_response(done, 500) EXCEPT
                                   !.classified = TRUE, !.save = "failed"])
                   ELSE Send(w, [Response(done, 200) EXCEPT
                                   !.card = card_data.card,
                                   !.classified = TRUE, !.save = "ok"])
    /\ UNCHANGED <<now, rate_limit_storage, users, cache, session, served>>

----------------------------------------------------------------------------
(* GET /api/cards/stats: get_card_stats *)

\* cached_stats = get_cached_data('stats'); if cached_stats: return it
StatsRead(w, ip) ==
    /\ Accept(w)
    /\ LET r == Request("stats", ip, None)
           cached_stats == get_cached_data("stats")
       IN  IF cached_stats # None
           THEN Send(w, [Response(r, 200) EXCEPT !.stats = cached_stats, !.cached = TRUE])
           ELSE Goto(w, [r EXCEPT !.pc = "stats_db"])
    /\ UNCHANGED <<now, rate_limit_storage, users, predictions, nextId, cache, session>>

\* stats = db.get_statistics() and the formatted result
StatsCompute(w) ==
    /\ req[w].pc = "stats_db"
    /\ Goto(w, [req[w] EXCEPT !.pc = "stats_set", !.stats = get_statistics])
    /\ UNCHANGED <<now, rate_limit_storage, users, predictions, nextId, cache, session, served>>

\* set_cached_data('stats', result); return jsonify(result)
StatsStore(w) ==
    /\ req[w].pc = "stats_set"
    /\ set_cached_data("stats", req[w].stats)
    /\ Send(w, [Response(req[w], 200) EXCEPT !.stats = req[w].stats])
    /\ UNCHANGED <<now, rate_limit_storage, users, predictions, nextId, session, served>>

----------------------------------------------------------------------------
(* POST /predict (form): predict *)

FormPredict(w, ip, body, outcome) ==
    /\ Accept(w)
    /\ LET news == Strip(body.text)
           r == [Request("form_predict", ip, body) EXCEPT !.news = news]
           prediction_data == FormRecord(r.user, news)
       IN  IF r.user = NoUser
           THEN /\ Send(w, [Response(r, 302) EXCEPT !.page = [redirect |-> "login"]])
                /\ UNCHANGED <<predictions, nextId>>
           ELSE IF TextLen(news) = 0
           THEN /\ Send(w, Response(r, 200))
                /\ UNCHANGED <<predictions, nextId>>
           ELSE /\ create_prediction(prediction_data, outcome)
                /\ Send(w, [Response(r, 200) EXCEPT
                              !.classified = TRUE,
                              !.save = IF outcome = "ok" THEN "ok" ELSE "failed",
                              !.store = {"create_prediction"}])
    /\ UNCHANGED <<now, rate_limit_storage, users, cache, session>>

----------------------------------------------------------------------------
(* Accounts and sessions: register, login, logout *)

\* db.get_user(username), db.get_user_by_email(email)
get_user(username) == {u \in users : u.username = username}
get_user_by_email(email) == {u \in users : u.email = email}

\* POST /register
Register(form) ==
    /\ served < MaxServed
    /\ served' = served + 1
    /\ IF /\ StrLen(form.username) > 0
          /\ StrLen(form.email) > 0
          /\ StrLen(form.password) > 0
          /\ ~(StrLen(form.username) < MIN_USERNAME_LEN)
          /\ ~(StrLen(form.password) < MIN_PASSWORD_LEN)
          /\ form.password = form.confirm_password
          /\ get_user(form.username) = {}
          /\ get_user_by_email(form.email) = {}
       THEN users' = users \cup {[username |-> form.username, email |-> form.email,
                                  password |-> generate_password_hash(form.password),
                                  role |-> "user"]}
       ELSE UNCHANGED users
    /\ UNCHANGED <<now, rate_limit_storage, predictions, nextId, cache, session,
                   req>>
    /\ resp' = NoResponse

\* POST /login
Login(c, form) ==
    /\ served < MaxServed
    /\ served' = served + 1
    /\ IF /\ StrLen(form.username) > 0
          /\ StrLen(form.password) > 0
          /\ \E u \in get_user(form.username) :
                check_password_hash(u.password, form.password)
       THEN session' = [session EXCEPT ![c] = form.username]
       ELSE UNCHANGED session
    /\ UNCHANGED <<now, rate_limit_storage, users, predictions, nextId, cache,
                   req>>
    /\ resp' = NoResponse

\* GET /logout: session.clear()
Logout(c) ==
    /\ served < MaxServed
    /\ served' = served + 1
    /\ session' = [session EXCEPT ![c] = NoUser]
    /\ UNCHANGED <<now, rate_limit_storage, users, predictions, nextId, cache,
                   req>>
    /\ resp' = NoResponse

----------------------------------------------------------------------------
(* The pages behind the login: home, history, clear_history, admin, profile *)

\* redirect(url_for(endpoint)), render_template(template, records=...), and
\* a plain string returned
redirect(r, endpoint) ==
    [Response(r, 302) EXCEPT !.page = [redirect |-> endpoint]]
render_template(r, template, records, calls) ==
    [Response(r, 200) EXCEPT !.page = [template |-> template, records |-> records],
                             !.store = calls]
text_page(r, text) ==
    [Response(r, 200) EXCEPT !.page = [text |-> text]]

\* 'username' not in session, were the test never to succeed
not_in_session_never(r) == FALSE

\* 'username' not in session
not_in_session(r) == r.user = NoUser

\* username=None of get_predictions, which adds no condition "if username:"
Everyone == ""

\* db.get_predictions(username=username, limit=limit): the ids of the rows
\* selected, the newest limit of them
get_predictions(username, limit) ==
    LET rows == {p.id : p \in {q \in predictions :
                                 username = Everyone \/ q.username = username}}
    IN  {i \in rows : Cardinality({j \in rows : j > i}) < limit}

\* db.delete_user_predictions(username), were it to have no WHERE clause
delete_user_predictions_everyones(username) ==
    predictions' = {}

\* db.delete_user_predictions(username)
delete_user_predictions(username) ==
    predictions' = {p \in predictions : p.username # username}

\* home(), under login_required
home(w, c) ==
    /\ Accept(w)
    /\ LET r == Request("home", c, None)
       IN  IF not_in_session(r)
           THEN Send(w, redirect(r, "login"))
           ELSE Send(w, render_template(r, "index.html", None, {}))
    /\ UNCHANGED <<now, rate_limit_storage, users, predictions, nextId, cache, session>>

\* history(), under login_required
history(w, c) ==
    /\ Accept(w)
    /\ LET r == Request("history", c, None)
       IN  IF not_in_session(r)
           THEN Send(w, redirect(r, "login"))
           ELSE Send(w, render_template(r, "history.html",
                                        get_predictions(r.user, 50),
                                        {"get_predictions"}))
    /\ UNCHANGED <<now, rate_limit_storage, users, predictions, nextId, cache, session>>

\* clear_history()
clear_history(w, c) ==
    /\ Accept(w)
    /\ LET r == Request("clear_history", c, None)
       IN  IF not_in_session(r)
           THEN /\ Send(w, redirect(r, "login"))
                /\ UNCHANGED predictions
           ELSE /\ delete_user_predictions(r.user)
                /\ Send(w, [redirect(r, "history") EXCEPT
                              !.store = {"delete_user_predictions"}])
    /\ UNCHANGED <<now, rate_limit_storage, users, nextId, cache, session>>

\* admin()
admin(w, c) ==
    /\ Accept(w)
    /\ LET r == Request("admin", c, None)
       IN  IF not_in_session(r)
           THEN Send(w, redirect(r, "login"))
           ELSE IF r.user # "admin"
           THEN Send(w, text_page(r, "Access denied. Admins only."))
           ELSE Send(w, render_template(r, "admin.html",
                                        get_predictions(Everyone, 100),
                                        {"get_predictions"}))
    /\ UNCHANGED <<now, rate_limit_storage, users, predictions, nextId, cache, session>>

\* profile(), under login_required
profile(w, c) ==
    /\ Accept(w)
    /\ LET r == Request("profile", c, None)
       IN  IF not_in_session(r)
           THEN Send(w, redirect(r, "login"))
           ELSE Send(w, render_template(r, "profile.html",
                                        get_predictions(r.user, 1000),
                                        {"get_user", "get_statistics",
                                         "get_predictions"}))
    /\ UNCHANGED <<now, rate_limit_storage, users, predictions, nextId, cache, session>>

----------------------------------------------------------------------------
(* register and update_password, store access by store access *)

\* render_template(template, error=message)
error_page(r, template, message, calls) ==
    [Response(r, 200) EXCEPT !.page = [template |-> template, error |-> message],
                             !.store = calls]

\* the page of the 500 handler for a path outside /api/, after an exception
\* the view did not catch
internal_error(r, calls) ==
    [Response(r, 500) EXCEPT !.page = [template |-> "500.html", error |-> "500"],
                             !.store = calls]

\* forms posted to /register, as read by request.form.get(name, "").strip():
\* those of RegisterForms, and accounts with a name or an address in common
SiteRegisterForms ==
    RegisterForms \cup
    {[username |-> "bob", email |-> "bob@example.com",
      password |-> "secret1", confirm_password |-> "secret1"],
     [username |-> "bob", email |-> "carol@example.com",
      password |-> "secret1", confirm_password |-> "secret1"],
     [username |-> "carol", email |-> "bob@example.com",
      password |-> "secret1", confirm_password |-> "secret1"],
     [username |-> "admin", email |-> "admin@example.com",
      password |-> "secret1", confirm_password |-> "secret1"]}

\* forms posted to /login
SiteLoginForms ==
    LoginForms \cup {[username |-> "admin", password |-> "secret1"],
                     [username |-> "alice", password |-> "secret2"]}

\* CREATE TABLE users: username TEXT UNIQUE, email TEXT UNIQUE, were neither
\* column UNIQUE
IntegrityError_never(username, email) == FALSE

\* CREATE TABLE users: username TEXT UNIQUE NOT NULL, email TEXT UNIQUE NOT
\* NULL; the INSERT of create_user raises sqlite3.IntegrityError
IntegrityError(username, email) ==
    \E u \in users : u.username = username \/ u.email = email

\* db.create_user(username, email, password_hash), role 'user': the row is
\* inserted and True returned, or IntegrityError caught and False returned
create_user(username, email, password_hash) ==
    users' = IF IntegrityError(username, email)
             THEN users
             ELSE users \cup {[username |-> username, email |-> email,
                               password |-> password_hash, role |-> "user"]}

\* register(), POST: the validation and the two lookups
register_validate(w, c, form) ==
    /\ Accept(w)
    /\ LET r == Request("register", c, form)
           refuse(message, calls) == Send(w, error_page(r, "register.html", message, calls))
       IN  IF StrLen(form.username) = 0 THEN refuse("Username is required", {})
           ELSE IF StrLen(form.email) = 0 THEN refuse("Email is required", {})
           ELSE IF StrLen(form.password) = 0 THEN refuse("Password is required", {})
           ELSE IF StrLen(form.username) < MIN_USERNAME_LEN
           THEN refuse("Username must be at least 3 characters long", {})
           ELSE IF StrLen(form.password) < MIN_PASSWORD_LEN
           THEN refuse("Password must be at least 6 characters long", {})
           ELSE IF form.password # form.confirm_password
           THEN refuse("Passwords do not match", {})
           ELSE IF get_user(form.username) # {}
           THEN refuse("Username already exists", {"get_user"})
           ELSE IF get_user_by_email(form.email) # {}
           THEN refuse("Email already registered", {"get_user", "get_user_by_email"})
           ELSE Goto(w, [r EXCEPT !.pc = "create_user"])
    /\ UNCHANGED <<now, rate_limit_storage, users, predictions, nextId, cache, session>>

\* register(), POST: db.create_user and the answer
register_create(w) ==
    /\ req[w].pc = "create_user"
    /\ LET r == req[w]
           form == r.body
           calls == {"get_user", "get_user_by_email", "create_user"}
       IN  /\ create_user(form.username, form.email,
                          generate_password_hash(form.password))
           /\ IF IntegrityError(form.username, form.email)
              THEN Send(w, error_page(r, "register.html",
                                      "Failed to create account", calls))
              ELSE Send(w, [redirect(r, "login") EXCEPT !.store = calls])
    /\ UNCHANGED <<now, rate_limit_storage, predictions, nextId, cache, session, served>>

\* login(): "if user and check_password_hash(...)", were the password not
\* looked at
password_accepted_unchecked(user, password) == user # {}

\* login(): if user and check_password_hash(user["password"], password)
password_accepted(user, password) ==
    user # {} /\ \E u \in user : check_password_hash(u.password, password)

\* login(), POST, with the page it answers
login(w, c, form) ==
    /\ Accept(w)
    /\ LET r == Request("login", c, form)
           user == get_user(form.username)
       IN  IF StrLen(form.username) = 0 \/ StrLen(form.password) = 0
           THEN /\ Send(w, error_page(r, "login.html",
                                      "Please enter both username and password", {}))
                /\ UNCHANGED session
           ELSE IF password_accepted(user, form.password)
           THEN /\ session' = [session EXCEPT ![c] = form.username]
                /\ Send(w, [redirect(r, "home") EXCEPT !.store = {"get_user"}])
           ELSE /\ Send(w, error_page(r, "login.html",
                                      "Invalid username or password", {"get_user"}))
                /\ UNCHANGED session
    /\ UNCHANGED <<now, rate_limit_storage, users, predictions, nextId, cache>>

\* request.form.get(name) of a field the form does not have
Missing == "<missing>"

\* len(value) of a form field; len(None) raises TypeError
FieldLen(value) == IF value = Missing THEN 0 ELSE StrLen(value)

\* forms posted to /update_password
PasswordForms ==
    {[current_password |-> cur, new_password |-> pair[1], confirm_password |-> pair[2]] :
       cur \in {Missing, "secret1", "pw"},
       pair \in {<<"secret2", "secret2">>, <<"secret1", "secret1">>,
                 <<"secret2", "secret1">>, <<"pw", "pw">>, <<Missing, Missing>>}}

\* check_password_hash(pwhash, password) of a form field; with None for
\* the password it raises
verifies(pwhash, password) ==
    password # Missing /\ check_password_hash(pwhash, password)

\* db.update_user_password(username, password_hash)
update_user_password(username, password_hash) ==
    users' = {IF u.username = username THEN [u EXCEPT !.password = password_hash]
              ELSE u : u \in users}

\* update_password(), under login_required: db.get_user and the checks
update_password_check(w, c, form) ==
    /\ Accept(w)
    /\ LET r == Request("update_password", c, form)
           user == get_user(r.user)
           back(calls) == Send(w, [redirect(r, "profile") EXCEPT !.store = calls])
       IN  IF not_in_session(r) THEN Send(w, redirect(r, "login"))
           ELSE IF user = {} \/ form.current_password = Missing
           THEN Send(w, internal_error(r, {"get_user"}))
           ELSE IF \A u \in user : ~verifies(u.password, form.current_password)
           THEN back({"get_user"})
           ELSE IF form.new_password # form.confirm_password
           THEN back({"get_user"})
           ELSE IF form.new_password = Missing
           THEN Send(w, internal_error(r, {"get_user"}))
           ELSE IF FieldLen(form.new_password) < MIN_PASSWORD_LEN
           THEN back({"get_user"})
           ELSE Goto(w, [r EXCEPT !.pc = "update_user_password"])
    /\ UNCHANGED <<now, rate_limit_storage, users, predictions, nextId, cache, session>>

\* update_password(): db.update_user_password and the answer
update_password_write(w) ==
    /\ req[w].pc = "update_user_password"
    /\ LET r == req[w]
       IN  /\ update_user_password(r.user, generate_password_hash(r.body.new_password))
           /\ Send(w, [redirect(r, "profile") EXCEPT
                         !.store = {"get_user", "update_user_password"}])
    /\ UNCHANGED <<now, rate_limit_storage, predictions, nextId, cache, session, served>>

----------------------------------------------------------------------------
(* GET /api/cards: get_cards *)

\* the largest integer sqlite3 binds to a statement parameter
SqliteIntMax == 2 ^ (SqliteIntBits - 1) - 1

\* cursor.execute(query, params) raises OverflowError ("Python int too large
\* to convert to SQLite INTEGER") on a parameter outside the signed range
Binds(n) == n >= -SqliteIntMax - 1 /\ n <= SqliteIntMax

\* the integers sent as ?page= and ?limit=
CardPages == {-1, 0, 1, 2, SqliteIntMax}
CardLimits == {-1, 0, 1, 20, 100, 101}
CardArgs == [page : CardPages, limit : CardLimits]

\* db.count_predictions(search='', prediction_filter='')
count_predictions == Cardinality(predictions)

\* get_cards with the default search, filter, sort and order: the parameters
\* are adjusted, the offset computed, the count and the page read from the
\* store; any exception ends in error_response(..., 500)
get_cards(w, ip, args) ==
    /\ Accept(w)
    /\ LET r == Request("cards", ip, args)
           page == IF args.page < 1 THEN 1 ELSE args.page
           limit == IF args.limit < 1 \/ args.limit > 100 THEN 20 ELSE args.limit
           offset == (page - 1) * limit
           total_count == count_predictions
       IN  IF ~(Binds(limit) /\ Binds(offset))
           THEN Send(w, error_response(r, 500))
           ELSE Send(w, [Response(r, 200) EXCEPT
                           !.pagination = [page |-> page, limit |-> limit,
                                           total_count |-> total_count]])
    /\ UNCHANGED <<now, rate_limit_storage, users, predictions, nextId, cache, session>>

----------------------------------------------------------------------------
(* GET /api/cards/<int:card_id>, and requests no route takes *)

\* db.get_prediction_by_id(prediction_id): the row or None
get_prediction_by_id(prediction_id) ==
    LET hits == {p \in predictions : p.id = prediction_id}
    IN  IF hits = {} THEN None ELSE CHOOSE p \in hits : TRUE

\* the card ids asked for
CardIds == {1, 2}

\* get_card_details(card_id)
get_card_details(w, ip, card_id) ==
    /\ Accept(w)
    /\ LET r == Request("card_details", ip, [card_id |-> card_id])
           prediction == get_prediction_by_id(card_id)
       IN  IF prediction = None
           THEN Send(w, error_response(r, 404))
           ELSE Send(w, [Response(r, 200) EXCEPT
                           !.card = generate_card_data(prediction).card])
    /\ UNCHANGED <<now, rate_limit_storage, users, predictions, nextId, cache, session>>

\* requests under /api/ the routing refuses: a path no route has (NotFound,
\* 404) and a method the route does not list (MethodNotAllowed, 405)
Refusals == {[path |-> "/api/unknown", method |-> "GET", code |-> 404],
             [path |-> "/api/predict", method |-> "GET", code |-> 405]}

\* not_found(error), method_not_allowed(error) for request.path under /api/
RoutingError(w, ip, refusal) ==
    /\ Accept(w)
    /\ Send(w, error_response(Request("api_unrouted", ip, refusal), refusal.code))
    /\ UNCHANGED <<now, rate_limit_storage, users, predictions, nextId, cache, session>>

----------------------------------------------------------------------------
(* Sample data: DatabaseManager.create_sample_data *)

\* the two sample_predictions; the texts are named by their opening words,
\* and each content_hash is the md5 of the literal written in the source
sample_predictions ==
    << [username |-> "demo_user", news |-> "Scientists at MIT have developed",
        prediction |-> "REAL", confidence |-> 92, source |-> "Tech News Daily",
        category |-> "Technology", tags |-> <<"technology", "science">>,
        word_count |-> 35, character_count |-> 234,
        content_hash |-> <<"md5", "Scientists at MIT...">>],
       [username |-> "demo_user", news |-> "BREAKING: Aliens have landed",
        prediction |-> "FAKE", confidence |-> 96, source |-> "Social Media",
        category |-> "General", tags |-> <<"politics">>,
        word_count |-> 38, character_count |-> 245,
        content_hash |-> <<"md5", "BREAKING: Aliens...">>] >>

\* for pred_data in sample_predictions: try: self.create_prediction(pred_data)
\* except: print a warning.  outcomes[i] is the outcome of the i-th INSERT.
\* A call counts as one of the MaxServed operations of the behaviour.
create_sample_data(outcomes) ==
    /\ served < MaxServed
    /\ served' = served + 1
    /\ Cardinality({p \in predictions : p.username = "demo_user"})
          < Len(sample_predictions) * SampleRuns
    /\ LET first == IF outcomes[1] = "ok"
                     THEN {InsertedRow(sample_predictions[1], nextId)} ELSE {}
           id2 == nextId + Cardinality(first)
           second == IF outcomes[2] = "ok"
                     THEN {InsertedRow(sample_predictions[2], id2)} ELSE {}
       IN  /\ predictions' = predictions \cup first \cup second
           /\ nextId' = id2 + Cardinality(second)
    /\ resp' = NoResponse
    /\ UNCHANGED <<now, rate_limit_storage, users, cache, session, req>>

----------------------------------------------------------------------------
(* Clock *)

Tick ==
    /\ now + TickStep <= MaxTicks * TickStep
    /\ now' = now + TickStep
    /\ resp' = NoResponse
    /\ UNCHANGED <<rate_limit_storage, users, predictions, nextId, cache, session,
                   req, served>>


\* half a step of the clock
HalfTick ==
    /\ now + TickStep \div 2 <= MaxTicks * TickStep
    /\ now' = now + TickStep \div 2
    /\ resp' = NoResponse
    /\ UNCHANGED <<rate_limit_storage, users, predictions, nextId, cache, session,
                   req, served>>

----------------------------------------------------------------------------
(* History *)

\* the worker whose request the step handles, if the step handles one
Moved(w) == req'[w] # req[w]

\* the limiter let the request of w through in this step
Admits(w) == req[w].pc = "rate" /\ req'[w].pc = "handler"

\* the limiter answered the request of w with 429 in this step
Rejects(w) == req[w].pc = "rate" /\ req'[w].pc = "idle" /\ resp'.status = 429

\* the step completed set_cached_data('stats', None)
Invalidates(w) == req[w].pc = "invalidate" /\ req'[w].pc = "idle"

\* a request came in and waits at the limiter
Arrives(w) == req[w].pc = "idle" /\ req'[w].pc = "rate"

\* what a client keeps of an answer of /api/predict
Answer(response) ==
    IF response.status = 200
    THEN [news |-> response.news, id |-> response.card.id]
    ELSE None

\* the step changed the table predictions
Writes == predictions' # predictions

\* the step answers a request to /api/cards/stats
AnswersStats == resp'.ep = "stats"

\* the worker that answers in this step had the request in hand before the
\* step (a read served from the cache comes in and is answered in one step)
Answering(w) == req[w].pc # "idle" /\ req'[w].pc = "idle"

\* no write has happened since the request answered in this step came in
CleanRead ==
    \A w \in Workers : Answering(w) => (watch[w] # None /\ watch[w].clean)

\* the last answer of /api/cards/stats before the request answered in this
\* step came in, if no write has happened since that answer; None otherwise
SeenBefore ==
    IF \E w \in Workers : Answering(w)
    THEN LET w == CHOOSE v \in Workers : Answering(v)
         IN  IF watch[w] # None THEN watch[w].prev ELSE None
    ELSE seen

\* the history variables follow the step
Record ==
    /\ UNCHANGED proj
    /\ admitted' =
          LET let_through ==
                  {[ep |-> req[w].ep, ip |-> req[w].ip, at |-> now] :
                     w \in {v \in Workers : Admits(v)}}
              Within(a) == now' - a.at < RATE_WINDOW
              entry == IF let_through = {} THEN <<>>
                       ELSE <<CHOOSE a \in let_through : TRUE>>
          IN  SelectSeq(admitted \o entry, Within)
    /\ invalidated' =
          IF \E w \in Workers : Invalidates(w)
          THEN Cardinality(predictions')
          ELSE invalidated
    /\ last' =
          IF resp'.ep = "predict"
          THEN [last EXCEPT ![resp'.ip] = Answer(resp')]
          ELSE last
    /\ began' =
          [w \in Workers |->
             IF Arrives(w) THEN last[req'[w].ip]
             ELSE IF req'[w].pc = "idle" THEN None
             ELSE began[w]]
    /\ seen' =
          IF Writes THEN None
          ELSE IF AnswersStats /\ CleanRead
          THEN [stats |-> resp'.stats, at |-> now']
          ELSE seen
    /\ watch' =
          [w \in Workers |->
             IF req'[w].pc \notin {"stats_db", "stats_set"} THEN None
             ELSE IF req[w].pc = "idle" THEN [clean |-> TRUE, prev |-> seen]
             ELSE IF Writes THEN [clean |-> FALSE, prev |-> None]
             ELSE watch[w]]
    /\ limited' =
          [c \in Clients |->
             IF \E w \in Workers : Rejects(w) /\ req[w].ip = c
             THEN [oldest |-> rate_limit_storage'[c][1]]
             ELSE IF \E w \in Workers : Admits(w) /\ req[w].ip = c
             THEN None
             ELSE limited[c]]

\* the history variables are not kept
Quiet == UNCHANGED <<hist, proj>>

----------------------------------------------------------------------------
(* The server *)

Next ==
    \/ \E w \in Workers, ip \in Clients, body \in PredictBodies :
          RateEnter(w, "predict", ip, body) /\ Quiet
    \/ \E w \in Workers, ip \in Clients, body \in AnalyzeBodies :
          RateEnter(w, "analyze_url", ip, body) /\ Quiet
    \/ \E w \in Workers : RateLimit(w) /\ Quiet
    \/ \E w \in Workers : PredictLookup(w) /\ Quiet
    \/ \E w \in Workers, outcome \in StoreOutcomes :
          PredictPersist(w, outcome) /\ Quiet
    \/ \E w \in Workers : PredictInvalidate(w) /\ Quiet
    \/ \E w \in Workers, x \in Extractions, outcome \in StoreOutcomes :
          AnalyzeUrl(w, x, outcome) /\ Quiet
    \/ \E w \in Workers, ip \in Clients : StatsRead(w, ip) /\ Quiet
    \/ \E w \in Workers : StatsCompute(w) /\ Quiet
    \/ \E w \in Workers : StatsStore(w) /\ Quiet
    \/ \E w \in Workers, ip \in Clients, body \in FormBodies,
          outcome \in StoreOutcomes : FormPredict(w, ip, body, outcome) /\ Quiet
    \/ \E form \in RegisterForms : Register(form) /\ Quiet
    \/ \E c \in Clients, form \in LoginForms : Login(c, form) /\ Quiet
    \/ \E c \in Clients : Logout(c) /\ Quiet
    \/ Tick /\ Quiet

Spec == Init /\ [][Next]_vars

\* the same server, observed: every step also writes the history
NextHistory ==
    \/ \E w \in Workers, ip \in Clients, body \in PredictBodies :
          RateEnter(w, "predict", ip, body) /\ Record
    \/ \E w \in Workers, ip \in Clients, body \in AnalyzeBodies :
          RateEnter(w, "analyze_url", ip, body) /\ Record
    \/ \E w \in Workers : RateLimit(w) /\ Record
    \/ \E w \in Workers : PredictLookup(w) /\ Record
    \/ \E w \in Workers, outcome \in StoreOutcomes :
          PredictPersist(w, outcome) /\ Record
    \/ \E w \in Workers : PredictInvalidate(w) /\ Record
    \/ \E w \in Workers, x \in Extractions, outcome \in StoreOutcomes :
          AnalyzeUrl(w, x, outcome) /\ Record
    \/ \E w \in Workers, ip \in Clients : StatsRead(w, ip) /\ Record
    \/ \E w \in Workers : StatsCompute(w) /\ Record
    \/ \E w \in Workers : StatsStore(w) /\ Record
    \/ \E w \in Workers, ip \in Clients, body \in FormBodies,
          outcome \in StoreOutcomes : FormPredict(w, ip, body, outcome) /\ Record
    \/ \E form \in RegisterForms : Register(form) /\ Record
    \/ \E c \in Clients, form \in LoginForms : Login(c, form) /\ Record
    \/ \E c \in Clients : Logout(c) /\ Record
    \/ Tick /\ Record

SpecHistory == Init /\ [][NextHistory]_vars

\* the server on a store that create_sample_data may fill
NextSeeded ==
    \/ Next
    \/ \E outcomes \in [1..2 -> StoreOutcomes] : create_sample_data(outcomes) /\ Quiet

SpecSeeded == Init /\ [][NextSeeded]_vars

\* the server with its card listing
NextCards ==
    \/ Next
    \/ \E w \in Workers, ip \in Clients, args \in CardArgs :
          get_cards(w, ip, args) /\ Quiet

SpecCards == Init /\ [][NextCards]_vars

\* The card projection taken alone: generate_card_data applied to the records
\* it may be handed

\* the texts of the records projected
ProjectedTexts ==
    {"", "vote", "said", "the moon", "six topics", "one in ten", "late english"}

\* the fields generate_card_data reads with .get
OptionalKeys ==
    {"confidence", "source", "category", "tags", "language", "word_count",
     "character_count", "content_hash", "entities", "model_version"}

\* a stored record of the text with every field, as predict_enhanced writes it
FullRecord(text) == InsertedRow(PredictionRecord(Anonymous, text, "API"), 1)

\* a dict with the keys of the record only
Only(keys, dict) == [k \in keys |-> dict[k]]

\* records with and without an id and with any of the optional fields
ProjectedRecords ==
    UNION {LET full == FullRecord(text)
           IN  {Only(required \cup optional, full) :
                  required \in {SubscriptedKeys, SubscriptedKeys \ {"id"}},
                  optional \in SUBSET OptionalKeys} :
           text \in ProjectedTexts}

InitProject ==
    /\ now = 0
    /\ rate_limit_storage = [c \in Clients |-> <<>>]
    /\ users = {}
    /\ predictions = {}
    /\ nextId = 1
    /\ cache = [k \in {"stats", "recent_cards"} |->
                  [data |-> None, timestamp |-> 0,
                   ttl |-> IF k = "stats" THEN STATS_TTL ELSE RECENT_TTL]]
    /\ session = [c \in Clients |-> NoUser]
    /\ req = [w \in Workers |-> Idle]
    /\ resp = NoResponse
    /\ served = 0
    /\ admitted = <<>>
    /\ invalidated = 0
    /\ last = [c \in Clients |-> None]
    /\ began = [w \in Workers |-> None]
    /\ seen = None
    /\ watch = [w \in Workers |-> None]
    /\ limited = [c \in Clients |-> None]
    /\ projecting \in ProjectedRecords
    /\ projected = None

\* card_data = generate_card_data(prediction_record)
Project ==
    /\ projected = None
    /\ projected' = generate_card_data(projecting)
    /\ UNCHANGED <<projecting, prog, hist>>

NextProject == Project

SpecProject == InitProject /\ [][NextProject]_vars

\* The title of a card taken alone: extract_title_from_text applied to texts
\* written as runs of characters.  A run is n characters of one kind: "word"
\* (no whitespace, none of . ! ?), "space" (whitespace) or "stop" (. ! ?);
\* neighbouring runs differ in kind.

\* max_length=100
TITLE_MAX_LENGTH == 100

Run(kind, n) == [kind |-> kind, n |-> n]

RunLengths(kind) ==
    CASE kind = "word"  -> {1, 50, 99, 100, 101}
      [] kind = "space" -> {1, 2}
      [] kind = "stop"  -> {1, 3}

RECURSIVE RunsFrom(_, _)
\* the texts of at most k runs whose first run is not of kind previous
RunsFrom(previous, k) ==
    IF k = 0 THEN {<<>>}
    ELSE {<<>>} \cup
         UNION {{<<Run(kind, n)>> \o rest : n \in RunLengths(kind),
                                            rest \in RunsFrom(kind, k - 1)} :
                  kind \in {"word", "space", "stop"} \ {previous}}

TitleTexts == RunsFrom("none", MaxRuns)

RECURSIVE len(_)
\* len(text)
len(text) == IF text = <<>> THEN 0 ELSE Head(text).n + len(Tail(text))

\* str.strip()
strip(text) ==
    LET left == IF text # <<>> /\ Head(text).kind = "space" THEN Tail(text) ELSE text
    IN  IF left # <<>> /\ left[Len(left)].kind = "space"
        THEN SubSeq(left, 1, Len(left) - 1) ELSE left

\* re.split(r'[.!?]+', text)[0]
first_of_split(text) ==
    LET stops == {i \in 1..Len(text) : text[i].kind = "stop"}
    IN  IF stops = {} THEN text
        ELSE SubSeq(text, 1, (CHOOSE i \in stops : \A j \in stops : i <= j) - 1)

\* re.sub(r'\s+', ' ', title)
collapse_whitespace(title) ==
    [i \in 1..Len(title) |->
       IF title[i].kind = "space" THEN Run("space", 1) ELSE title[i]]

RECURSIVE slice(_, _)
\* title[:max_length]
slice(title, max_length) ==
    IF title = <<>> \/ max_length = 0 THEN <<>>
    ELSE IF Head(title).n <= max_length
    THEN <<Head(title)>> \o slice(Tail(title), max_length - Head(title).n)
    ELSE <<Run(Head(title).kind, max_length)>>

\* title.rsplit(' ', 1)[0] of a title whose whitespace is single spaces
rsplit_first(title) ==
    LET spaces == {i \in 1..Len(title) : title[i].kind = "space"}
    IN  IF spaces = {} THEN title
        ELSE SubSeq(title, 1, (CHOOSE i \in spaces : \A j \in spaces : i >= j) - 1)

\* extract_title_from_text(text, max_length)
extract_title_from_text(text, max_length) ==
    LET title == collapse_whitespace(strip(first_of_split(strip(text))))
    IN  IF len(title) > max_length
        THEN rsplit_first(slice(title, max_length)) \o <<Run("stop", 3)>>
        ELSE title

InitTitle ==
    /\ now = 0
    /\ rate_limit_storage = [c \in Clients |-> <<>>]
    /\ users = {}
    /\ predictions = {}
    /\ nextId = 1
    /\ cache = [k \in {"stats", "recent_cards"} |->
                  [data |-> None, timestamp |-> 0,
                   ttl |-> IF k = "stats" THEN STATS_TTL ELSE RECENT_TTL]]
    /\ session = [c \in Clients |-> NoUser]
    /\ req = [w \in Workers |-> Idle]
    /\ resp = NoResponse
    /\ served = 0
    /\ admitted = <<>>
    /\ invalidated = 0
    /\ last = [c \in Clients |-> None]
    /\ began = [w \in Workers |-> None]
    /\ seen = None
    /\ watch = [w \in Workers |-> None]
    /\ limited = [c \in Clients |-> None]
    /\ projecting \in TitleTexts
    /\ projected = None

\* 'title': extract_title_from_text(news_text)
Title ==
    /\ projected = None
    /\ projected' = [title |-> extract_title_from_text(projecting, TITLE_MAX_LENGTH)]
    /\ UNCHANGED <<projecting, prog, hist>>

SpecTitle == InitTitle /\ [][Title]_vars

\* The legacy backfill taken alone: migrate_predictions of migrate_data.py run
\* on a MongoDB collection of documents written before the card fields
\* existed.  A document is a function from the keys it has; update_one is
\* taken to succeed.

\* a key stored with the value null
Null == "<null>"

\* the keys the backfill may add, with values a document may already hold
CardKeys == {"confidence", "source", "category", "tags", "model_version"}
LegacyValues ==
    [confidence |-> 91, source |-> "Reuters", category |-> "Health",
     tags |-> <<"health">>, model_version |-> "0.9"]

\* the documents with this _id; their news is a text or null
LegacyDocuments(id) ==
    {[k \in {"_id", "prediction", "news"} \cup keys |->
        CASE k = "_id" -> id
          [] k = "prediction" -> label
          [] k = "news" -> news
          [] OTHER -> LegacyValues[k]] :
       keys \in SUBSET CardKeys, label \in {"REAL", "FAKE"},
       news \in {"politics and health", Null}}

\* extract_tags_from_text(text) of migrate_data.py: the keywords found in
\* the lowered text, the first three; on null, text.lower() raises
extract_tags_from_text(text) ==
    CASE text = "politics and health" -> <<"politics", "health">>
      [] OTHER -> <<>>

\* the body of the loop raises (and the except prints and goes on)
migration_raises(prediction) ==
    "tags" \notin DOMAIN prediction /\ prediction.news = Null

\* update_fields, were source written whether or not it is there
update_fields_overwriting(prediction) ==
    LET absent == (CardKeys \ DOMAIN prediction) \cup {"source"}
    IN  [k \in absent |->
           CASE k = "confidence" -> IF prediction.prediction = "REAL" THEN 85 ELSE 78
             [] k = "source" -> "User Submission"
             [] k = "category" -> "General"
             [] k = "tags" -> extract_tags_from_text(prediction.news)
             [] k = "model_version" -> "1.0"]

\* update_fields of one prediction: a value for each key not in it (0.85 and
\* 0.78 are written 85 and 78)
update_fields(prediction) ==
    LET absent == CardKeys \ DOMAIN prediction
    IN  [k \in absent |->
           CASE k = "confidence" -> IF prediction.prediction = "REAL" THEN 85 ELSE 78
             [] k = "source" -> "User Submission"
             [] k = "category" -> "General"
             [] k = "tags" -> extract_tags_from_text(prediction.news)
             [] k = "model_version" -> "1.0"]

\* update_one({"_id": ...}, {"$set": fields}): the document afterwards
Set(document, fields) ==
    [k \in DOMAIN document \cup DOMAIN fields |->
       IF k \in DOMAIN fields THEN fields[k] ELSE document[k]]

\* find({"$or": [{key: {"$exists": False}} ...]}): the documents selected
predictions_to_migrate(collection) ==
    {d \in collection :
       \E k \in {"confidence", "source", "category", "tags"} : k \notin DOMAIN d}

\* migrate_predictions(db): the collection afterwards
migrate_predictions(collection) ==
    {IF d \in predictions_to_migrate(collection) /\ ~migration_raises(d)
     THEN Set(d, update_fields(d)) ELSE d : d \in collection}

InitMigrate ==
    /\ now = 0
    /\ rate_limit_storage = [c \in Clients |-> <<>>]
    /\ users = {}
    /\ predictions \in {{first, second} : first \in LegacyDocuments(1),
                                            second \in LegacyDocuments(2)}
    /\ nextId = 1
    /\ cache = [k \in {"stats", "recent_cards"} |->
                  [data |-> None, timestamp |-> 0,
                   ttl |-> IF k = "stats" THEN STATS_TTL ELSE RECENT_TTL]]
    /\ session = [c \in Clients |-> NoUser]
    /\ req = [w \in Workers |-> Idle]
    /\ resp = NoResponse
    /\ served = 0
    /\ admitted = <<>>
    /\ invalidated = 0
    /\ last = [c \in Clients |-> None]
    /\ began = [w \in Workers |-> None]
    /\ seen = None
    /\ watch = [w \in Workers |-> None]
    /\ limited = [c \in Clients |-> None]
    /\ projecting = None
    /\ projected = None

\* one run of the script; served counts the runs
Migrate ==
    /\ served < MaxServed
    /\ served' = served + 1
    /\ predictions' = migrate_predictions(predictions)
    /\ UNCHANGED <<now, rate_limit_storage, users, nextId, cache, session, req, resp,
                   hist, proj>>

SpecMigrate == InitMigrate /\ [][Migrate]_vars

\* the server with every failure of its /api/ routes
NextErrors ==
    \/ Next
    \/ \E w \in Workers, ip \in Clients, body \in MalformedBodies :
          RateEnter(w, "predict", ip, body) /\ Quiet
    \/ \E w \in Workers, ip \in Clients, card_id \in CardIds :
          get_card_details(w, ip, card_id) /\ Quiet
    \/ \E w \in Workers, ip \in Clients, refusal \in Refusals :
          RoutingError(w, ip, refusal) /\ Quiet

SpecErrors == Init /\ [][NextErrors]_vars

\* the routes behind the login, by the names their requests carry
LoginProtected ==
    {"home", "history", "profile", "update_password", "form_predict",
     "clear_history", "admin"}

\* the site in use: alice has an account and is logged in, and the store
\* holds a text she submitted through the form and one submitted to
\* /api/predict with no session
InitSite ==
    /\ now = 0
    /\ rate_limit_storage = [c \in Clients |-> <<>>]
    /\ users = {[username |-> "alice", email |-> "alice@example.com",
                 password |-> generate_password_hash("secret1"), role |-> "user"]}
    /\ predictions = {InsertedRow(FormRecord("alice", "ten"), 1),
                      InsertedRow(PredictionRecord(Anonymous, "article", "API"), 2)}
    /\ nextId = 3
    /\ cache = [k \in {"stats", "recent_cards"} |->
                  [data |-> None, timestamp |-> 0,
                   ttl |-> IF k = "stats" THEN STATS_TTL ELSE RECENT_TTL]]
    /\ session = [c \in Clients |-> "alice"]
    /\ req = [w \in Workers |-> Idle]
    /\ resp = NoResponse
    /\ served = 0
    /\ admitted = <<>>
    /\ invalidated = 0
    /\ last = [c \in Clients |-> None]
    /\ began = [w \in Workers |-> None]
    /\ seen = None
    /\ watch = [w \in Workers |-> None]
    /\ limited = [c \in Clients |-> None]
    /\ projecting = None
    /\ projected = None

\* the pages, the accounts and the routes that write predictions
NextSite ==
    \/ \E w \in Workers, c \in Clients : home(w, c) /\ Quiet
    \/ \E w \in Workers, c \in Clients : history(w, c) /\ Quiet
    \/ \E w \in Workers, c \in Clients : clear_history(w, c) /\ Quiet
    \/ \E w \in Workers, c \in Clients : admin(w, c) /\ Quiet
    \/ \E w \in Workers, c \in Clients : profile(w, c) /\ Quiet
    \/ \E w \in Workers, c \in Clients, form \in SiteRegisterForms :
          register_validate(w, c, form) /\ Quiet
    \/ \E w \in Workers : register_create(w) /\ Quiet
    \/ \E w \in Workers, c \in Clients, form \in PasswordForms :
          update_password_check(w, c, form) /\ Quiet
    \/ \E w \in Workers : update_password_write(w) /\ Quiet
    \/ \E w \in Workers, c \in Clients, form \in SiteLoginForms :
          login(w, c, form) /\ Quiet
    \/ \E c \in Clients : Logout(c) /\ Quiet
    \/ \E w \in Workers, ip \in Clients, body \in FormBodies,
          outcome \in StoreOutcomes : FormPredict(w, ip, body, outcome) /\ Quiet
    \/ \E w \in Workers, ip \in Clients, body \in PredictBodies :
          RateEnter(w, "predict", ip, body) /\ Quiet
    \/ \E w \in Workers : RateLimit(w) /\ Quiet
    \/ \E w \in Workers : PredictLookup(w) /\ Quiet
    \/ \E w \in Workers, outcome \in StoreOutcomes :
          PredictPersist(w, outcome) /\ Quiet
    \/ \E w \in Workers : PredictInvalidate(w) /\ Quiet
    \/ \E w \in Workers, ip \in Clients, body \in AnalyzeBodies :
          RateEnter(w, "analyze_url", ip, body) /\ Quiet
    \/ \E w \in Workers, x \in Extractions, outcome \in StoreOutcomes :
          AnalyzeUrl(w, x, outcome) /\ Quiet

SpecSite == InitSite /\ [][NextSite]_vars

\* the server after it admitted one request of the client at instant 0 and
\* stored nothing for it: the limiter holds that timestamp
InitLimiter ==
    /\ now = 0
    /\ rate_limit_storage = [c \in Clients |-> <<0>>]
    /\ users = {}
    /\ predictions = {}
    /\ nextId = 1
    /\ cache = [k \in {"stats", "recent_cards"} |->
                  [data |-> None, timestamp |-> 0,
                   ttl |-> IF k = "stats" THEN STATS_TTL ELSE RECENT_TTL]]
    /\ session = [c \in Clients |-> NoUser]
    /\ req = [w \in Workers |-> Idle]
    /\ resp = NoResponse
    /\ served = 0
    /\ admitted = <<>>
    /\ invalidated = 0
    /\ last = [c \in Clients |-> None]
    /\ began = [w \in Workers |-> None]
    /\ seen = None
    /\ watch = [w \in Workers |-> None]
    /\ limited = [c \in Clients |-> None]
    /\ projecting = None
    /\ projected = None

\* the observed server on a clock that also moves by half steps
NextLockout ==
    \/ NextHistory
    \/ HalfTick /\ Record

SpecLockout == InitLimiter /\ [][NextLockout]_vars

\* the server after one GET /api/cards/stats on the empty store: the 'stats'
\* entry holds the statistics of no record, computed at instant 0
InitWarm ==
    /\ now = 0
    /\ rate_limit_storage = [c \in Clients |-> <<>>]
    /\ users = {}
    /\ predictions = {}
    /\ nextId = 1
    /\ cache = [k \in {"stats", "recent_cards"} |->
                  [data |-> IF k = "stats"
                            THEN [total_predictions |-> 0, by_prediction |-> <<>>]
                            ELSE None,
                   timestamp |-> 0,
                   ttl |-> IF k = "stats" THEN STATS_TTL ELSE RECENT_TTL]]
    /\ session = [c \in Clients |-> NoUser]
    /\ req = [w \in Workers |-> Idle]
    /\ resp = NoResponse
    /\ served = 0
    /\ admitted = <<>>
    /\ invalidated = 0
    /\ last = [c \in Clients |-> None]
    /\ began = [w \in Workers |-> None]
    /\ seen = None
    /\ watch = [w \in Workers |-> None]
    /\ limited = [c \in Clients |-> None]
    /\ projecting = None
    /\ projected = None

SpecWarm == InitWarm /\ [][NextHistory]_vars

----------------------------------------------------------------------------
(* Properties *)

\* the records that carry the content hash of text
WithHash(rows, text) ==
    {p \in rows : p.content_hash = generate_content_hash(text)}

\* the requests to route ep from ip that the limiter let through in the
\* window that ends now
AdmittedInWindow(ep, ip) ==
    LET Counts(a) == a.ep = ep /\ a.ip = ip /\ now - a.at < RATE_WINDOW
    IN  Len(SelectSeq(admitted, Counts))

\* C1: for a valid text T, two successive POST /api/predict submissions of T
\* return the same card id, the second is flagged cached, and afterwards
\* exactly one stored record carries T's content hash.  Stated of every
\* answer 200 to a submission of T that came in after the same client's
\* previous submission, also of T, had been answered 200.
C1_SuccessiveSubmissionsIdempotent ==
    [][\A w \in Workers :
         ( /\ req[w].ep = "predict"
           /\ req[w].pc # "idle"
           /\ req'[w].pc = "idle"
           /\ resp'.status = 200
           /\ began[w] # None
           /\ began[w].news = resp'.news
           /\ TextLen(resp'.news) >= 10
           /\ TextLen(resp'.news) <= 10000 )
         => /\ resp'.card.id = began[w].id
            /\ resp'.cached
            /\ Cardinality(WithHash(predictions', resp'.news)) = 1]_vars

\* C2: after any sequence or interleaving of prediction submissions, through
\* /api/predict or the form route /predict, the store never holds two
\* records with the same content hash.
C2_NoDuplicateContentHash ==
    \A p, q \in predictions : p.content_hash = q.content_hash => p = q

\* C3: of N+1 valid requests a client sends to POST /api/predict in one window,
\* N the configured maximum of the route, the first N are admitted and the
\* (N+1)th is rejected with 429: the limiter lets a request through exactly
\* when fewer than N requests of that client to the route were let through
\* in the window that ends now.
C3_FirstNAdmittedNextRejected ==
    [][\A w \in Workers :
         ( /\ req[w].pc = "rate"
           /\ req[w].ep = "predict"
           /\ req[w].body.kind = "ok"
           /\ TextLen(Strip(req[w].body.text)) >= 10
           /\ TextLen(Strip(req[w].body.text)) <= 10000
           /\ Moved(w) )
         => IF AdmittedInWindow("predict", req[w].ip) < PredictMax
            THEN req'[w].pc = "handler"
            ELSE req'[w].pc = "idle" /\ resp'.status = 429]_vars

\* C4: the limiter's prune-check-record sequence is atomic per client: under
\* any interleaving of concurrent requests of one client to one limited
\* route, the number of requests admitted within any trailing window never
\* exceeds max_requests.
C4_AdmittedWithinWindowBounded ==
    \A ep \in {"predict", "analyze_url"}, ip \in Clients :
        AdmittedInWindow(ep, ip) <= MaxRequests(ep)

\* C5: the budgets of the two limited routes do not cross-contaminate: a
\* request a client makes to one of /api/analyze-url and /api/predict never
\* reduces what the limiter leaves that client on the other.
C5_BudgetsNotShared ==
    [][\A w \in Workers :
         (req[w].pc = "rate" /\ Moved(w))
         => \A ep \in {"predict", "analyze_url"} \ {req[w].ep} :
              LET ip == req[w].ip
                  used == Len(PruneWindow(rate_limit_storage[ip], now, RATE_WINDOW))
                  used_after ==
                      Len(PruneWindow(rate_limit_storage'[ip], now', RATE_WINDOW))
                  Remaining(n) == IF n < MaxRequests(ep) THEN MaxRequests(ep) - n ELSE 0
              IN  Remaining(used_after) >= Remaining(used)]_vars

\* C6, as the limiter allows: for every text T whose trimmed length is below
\* 10 or above 10,000, a POST /api/predict of T that the rate limiter has
\* admitted ends in status 400, and the request adds no record to the store.
C6_InvalidLengthRejected ==
    [][\A w \in Workers :
         ( /\ req[w].pc = "handler"
           /\ req[w].ep = "predict"
           /\ req[w].body.kind = "ok"
           /\ \/ TextLen(Strip(req[w].body.text)) < 10
              \/ TextLen(Strip(req[w].body.text)) > 10000
           /\ Moved(w) )
         => /\ req'[w].pc = "idle"
            /\ resp'.ep = "predict"
            /\ resp'.status = 400
            /\ predictions' = predictions
            /\ nextId' = nextId]_vars

\* C6: a text of invalid length has been rejected with 400 while the store
\* holds records
C6_InvalidLengthRejected_reached ==
    /\ resp.ep = "predict"
    /\ resp.status = 400
    /\ resp.body.kind = "ok"
    /\ \/ TextLen(Strip(resp.body.text)) < 10
       \/ TextLen(Strip(resp.body.text)) > 10000
    /\ predictions # {}

\* C6, as stated: for every text T whose trimmed length is below 10 or above
\* 10,000, POST /api/predict ends in status 400 and the store holds the same
\* records as before.
C6_EveryInvalidLengthEnds400 ==
    [][\A w \in Workers :
         ( /\ req[w].ep = "predict"
           /\ req[w].pc # "idle"
           /\ req'[w].pc = "idle"
           /\ req[w].body.kind = "ok"
           /\ \/ TextLen(Strip(req[w].body.text)) < 10
              \/ TextLen(Strip(req[w].body.text)) > 10000 )
         => resp'.status = 400 /\ predictions' = predictions]_vars

\* C7: every operation that writes a new prediction record (/api/predict
\* without a duplicate, /api/analyze-url, the form route /predict) leaves the
\* 'stats' cache entry absent when it answers.
C7_WriteLeavesStatsAbsent ==
    resp.save = "ok" => cache["stats"].data = None

\* C8: the statistics read-or-recompute sequence is atomic with respect to
\* invalidation: once a write of /api/predict has invalidated the cache, no
\* later read of /api/cards/stats returns a value computed before that write.
\* A read served from the cache counts at least the records that were
\* stored at the last invalidation.
C8_NoStaleStatsAfterInvalidation ==
    (resp.ep = "stats" /\ resp.cached)
    => resp.stats.total_predictions >= invalidated

\* C9: when the store write fails during a valid POST /api/predict without a
\* duplicate, the failure is swallowed and the request still ends in status
\* 200 carrying the computed card.
C9_StoreFailureSwallowed ==
    (resp.ep = "predict" /\ resp.save = "failed")
    => (resp.status = 200 /\ resp.card # None)

\* C10: a POST /api/predict that hits the dedup check returns the existing
\* record's card flagged cached, leaves the store and the statistics cache
\* entry unchanged, and makes no classifier call.
C10_DedupHitFrame ==
    [][\A w \in Workers :
         ( /\ req[w].pc = "handler"
           /\ req[w].ep = "predict"
           /\ req[w].body.kind = "ok"
           /\ TextLen(Strip(req[w].body.text)) >= 10
           /\ TextLen(Strip(req[w].body.text)) <= 10000
           /\ WithHash(predictions, Strip(req[w].body.text)) # {}
           /\ Moved(w) )
         => /\ req'[w].pc = "idle"
            /\ resp'.status = 200
            /\ resp'.cached
            /\ ~resp'.classified
            /\ \E p \in WithHash(predictions, Strip(req[w].body.text)) :
                  /\ resp'.card.id = p.id
                  /\ resp'.card.content = p.news
                  /\ resp'.card.prediction = p.prediction
            /\ predictions' = predictions
            /\ nextId' = nextId
            /\ cache' = cache]_vars

\* C10: a duplicate has been answered from the store while the statistics
\* cache holds a value
C10_DedupHitFrame_reached ==
    /\ resp.ep = "predict"
    /\ resp.status = 200
    /\ resp.cached
    /\ cache["stats"].data # None

C12_ValidationFailureKeepsSlot ==
    [][\A w \in Workers :
         ( /\ req[w].ep = "predict"
           /\ \/ req[w].body.kind # "ok"
              \/ TextLen(Strip(req[w].body.text)) < 10
              \/ TextLen(Strip(req[w].body.text)) > 10000
           /\ Moved(w) )
         => /\ (req[w].pc = "rate" /\ req'[w].pc = "handler")
               => /\ Len(rate_limit_storage'[req[w].ip]) >= 1
                  /\ rate_limit_storage'[req[w].ip]
                         [Len(rate_limit_storage'[req[w].ip])] = req[w].cur_time
            /\ req[w].pc = "handler"
               => /\ req'[w].pc = "idle"
                  /\ resp'.status = 400
                  /\ rate_limit_storage' = rate_limit_storage
                  /\ predictions' = predictions
                  /\ nextId' = nextId
                  /\ cache' = cache]_vars

\* C12: an admitted request has been rejected at validation while its slot
\* is in the client's window and the store holds a record
C12_ValidationFailureKeepsSlot_reached ==
    /\ resp.ep = "predict"
    /\ resp.status = 400
    /\ now \in {rate_limit_storage[resp.ip][i] :
                   i \in 1..Len(rate_limit_storage[resp.ip])}
    /\ predictions # {}

\* C13: in every execution of a POST /api/predict request the phases occur
\* in the order rate check, validation, dedup lookup, classification, store
\* write, and no classifier call or store write happens in a request that
\* did not pass all earlier phases.  A request comes in at the limiter; only
\* the limiter hands it to validation and lookup; only validation and a
\* lookup that finds nothing hand it to classification and the write; until
\* then the request changes no record and calls no classifier.
C13_PhasesInOrder ==
    [][\A w \in Workers :
         (Moved(w) /\ (req[w].ep = "predict" \/ req'[w].ep = "predict"))
         => /\ req[w].pc = "idle" => req'[w].pc = "rate"
            /\ req[w].pc = "rate"
               => /\ req'[w].pc \in {"idle", "handler"}
                  /\ req'[w].pc = "idle" => resp'.status = 429
            /\ req[w].pc = "handler"
               => /\ req'[w].pc \in {"idle", "persist"}
                  /\ req'[w].pc = "persist"
                       => /\ req[w].body.kind = "ok"
                          /\ TextLen(Strip(req[w].body.text)) >= 10
                          /\ TextLen(Strip(req[w].body.text)) <= 10000
                          /\ WithHash(predictions, Strip(req[w].body.text)) = {}
                          /\ req'[w].news = Strip(req[w].body.text)
            /\ req[w].pc = "persist" => req'[w].pc \in {"idle", "invalidate"}
            /\ req[w].pc = "invalidate" => req'[w].pc = "idle"
            /\ req[w].pc \in {"idle", "rate", "handler"}
               => /\ predictions' = predictions
                  /\ nextId' = nextId
                  /\ ~resp'.classified
                  /\ resp'.save = "none"]_vars

\* C13: a request has gone through all five phases and is answered
C13_PhasesInOrder_reached ==
    /\ resp.ep = "predict"
    /\ resp.status = 200
    /\ resp.classified
    /\ resp.save = "ok"
    /\ WithHash(predictions, resp.news) # {}

\* C14: each POST /api/predict request that passes the rate check and the
\* validation and misses the dedup lookup performs exactly one store write;
\* every other POST /api/predict request performs none.  The one step of a
\* request after a missed lookup adds exactly one record, that of the
\* request's text (none when the store raises, and the request then ends in
\* 500); no other step of a request to /api/predict changes the store.
C14_OneWritePerMiss ==
    [][\A w \in Workers :
         (Moved(w) /\ (req[w].ep = "predict" \/ req'[w].ep = "predict"))
         => IF req[w].pc = "persist"
            THEN LET written == predictions' \ predictions
                 IN  /\ predictions \subseteq predictions'
                     /\ req'[w].pc # "persist"
                     /\ \/ /\ Cardinality(written) = 1
                           /\ \A p \in written :
                                 /\ p.news = req[w].news
                                 /\ p.id = nextId
                                 /\ req'[w].card.id = p.id
                           /\ nextId' = nextId + 1
                           /\ req'[w].pc = "invalidate"
                        \/ /\ written = {}
                           /\ nextId' = nextId
                           /\ resp'.status = 500
                           /\ resp'.save = "failed"
            ELSE /\ predictions' = predictions
                 /\ nextId' = nextId]_vars

\* C14: a request that missed the lookup is answered and the store holds
\* exactly the one record it wrote for its text
C14_OneWritePerMiss_reached ==
    /\ resp.ep = "predict"
    /\ resp.status = 200
    /\ ~resp.cached
    /\ \E p \in predictions : p.id = resp.card.id
    /\ Cardinality(WithHash(predictions, resp.news)) = 1

\* C15: GET /api/cards/stats returns the cached value whenever the 'stats'
\* entry holds data and now - last_computed < ttl, and otherwise recomputes
\* from the store and refreshes the value and its timestamp, so two reads
\* within the TTL with no intervening write return identical results.  Stated
\* of every answer to a read during which no write happened, when an earlier
\* read was answered, also with no write during it, no write has happened
\* between the two, and the earlier answer is younger than the TTL.
C15_ReadsWithoutWriteAgree ==
    [][( /\ AnswersStats
         /\ CleanRead
         /\ ~Writes
         /\ SeenBefore # None
         /\ now' - SeenBefore.at < 300 )
       => resp'.stats = SeenBefore.stats]_vars

\* C16: every record written to the store by any handler (/api/predict, the
\* form route /predict, /api/analyze-url) holds a text whose length is at
\* least 10 and at most 10000 characters.
C16_StoredTextLengthInRange ==
    \A p \in predictions : TextLen(p.news) >= 10 /\ TextLen(p.news) <= 10000

\* C17: the content hash is a pure function of the raw text: every stored
\* record's content_hash equals generate_content_hash of that record's own
\* text, so a lookup by the hash of a text T finds a record exactly when a
\* record with text T is stored.
C17_StoredHashIsHashOfText ==
    /\ \A p \in predictions : p.content_hash = generate_content_hash(p.news)
    /\ \A T \in Texts :
          (get_prediction_by_hash(generate_content_hash(T)) # None)
            <=> (\E p \in predictions : p.news = T)

\* C18: for every integer page and limit supplied to GET /api/cards, the
\* request is not rejected, the effective limit lies in [1,100] (a limit below
\* 1 or above 100 becomes the default 20) and the effective page is at least 1.
C18_CardsParametersClamped ==
    resp.ep = "cards"
    => /\ resp.status = 200
       /\ resp.pagination # None
       /\ resp.pagination.limit >= 1 /\ resp.pagination.limit <= 100
       /\ (resp.body.limit < 1 \/ resp.body.limit > 100) => resp.pagination.limit = 20
       /\ resp.pagination.page >= 1

\* C19: card projection is total: for any prediction record with all optional
\* fields absent, generate_card_data returns a card filled with the documented
\* defaults (confidence 0.85, source 'User Submission', category 'General',
\* language 'en', model version '1.0', empty entities, counts and content hash
\* computed from the text) and never raises.  A prediction record has its id,
\* text, label, timestamp and user; the optional fields are all the others.
C19_ProjectionDefaults ==
    ( /\ projected # None
      /\ SubscriptedKeys \subseteq DOMAIN projecting
      /\ DOMAIN projecting \cap OptionalKeys = {} )
    => /\ ~projected.raised
       /\ projected.card.confidence = 85
       /\ projected.card.source = "User Submission"
       /\ projected.card.category = "General"
       /\ projected.card.language = "en"
       /\ projected.card.model_version = "1.0"
       /\ projected.card.entities = <<>>
       /\ projected.card.word_count = Len(Words(projecting.news))
       /\ projected.card.character_count = TextLen(projecting.news)
       /\ projected.card.content_hash = <<"md5", projecting.news>>
       /\ projected.card.id = projecting.id
       /\ projected.card.content = projecting.news

\* C19 witness: a record of several words with no optional field has been
\* projected
C19_ProjectionDefaults_reached ==
    /\ projected # None
    /\ SubscriptedKeys \subseteq DOMAIN projecting
    /\ DOMAIN projecting \cap OptionalKeys = {}
    /\ projecting.news = "six topics"
    /\ ~projected.raised
    /\ projected.card.word_count = 6

\* C20: when a record has no tags, the projected card's tags are the result
\* of the keyword-category heuristic over the record's text; when a record
\* has no language, the card's language is the result of the stopword
\* heuristic over the first 50 words of the text.
C20_ProjectionFallsBackToHeuristics ==
    (projected # None /\ ~projected.raised)
    => /\ ("tags" \notin DOMAIN projecting)
            => projected.card.tags = enhanced_extract_tags_from_text(projecting.news)
       /\ ("language" \notin DOMAIN projecting)
            => projected.card.language = detect_language(projecting.news)

\* C21: every failure outcome of an /api/ route (validation failure, malformed
\* JSON body, rate limit, lookup miss, unknown endpoint, wrong method, internal
\* error) is returned as the standard JSON error envelope {error: true,
\* message, timestamp, code} whose code equals the HTTP status.
C21_ApiFailureIsEnvelope ==
    ( /\ resp.ep \in {"predict", "analyze_url", "stats", "cards", "card_details",
                       "api_unrouted"}
      /\ resp.status >= 400 )
    => /\ resp.envelope # None
       /\ resp.envelope.error
       /\ resp.envelope.code = resp.status

\* C22: stored prediction records are removed only by clear_history, which
\* for a logged-in user u deletes exactly the records whose username is u and
\* leaves every other user's records unchanged; no request handler modifies a
\* record after it is stored.
C22_OnlyClearHistoryRemoves ==
    [][ /\ \A p \in predictions :
             p \notin predictions' =>
                /\ resp'.ep = "clear_history"
                /\ resp'.user # NoUser
                /\ resp'.user = p.username
        /\ (resp'.ep = "clear_history" /\ resp'.user # NoUser) =>
              predictions' = {p \in predictions : p.username # resp'.user}
        /\ \A p \in predictions, q \in predictions' : p.id = q.id => p = q
      ]_vars

\* alice has cleared her history: her record is gone, the other is there
C22_OnlyClearHistoryRemoves_reached ==
    /\ resp.ep = "clear_history"
    /\ resp.user = "alice"
    /\ resp.store = {"delete_user_predictions"}
    /\ \A p \in predictions : p.username # "alice"
    /\ \E p \in predictions : p.id = 2 /\ p.username = Anonymous

\* C23: after any sequence or interleaving of registration requests, no two
\* user accounts share a username and no two share an email; a registration
\* that would violate this creates no account and reports an error.
C23_AccountsUnique ==
    /\ [](\A u, v \in users :
            (u.username = v.username \/ u.email = v.email) => u = v)
    /\ [][ ( /\ resp'.ep = "register"
             /\ \E u \in users : \/ u.username = resp'.body.username
                                 \/ u.email = resp'.body.email )
           => /\ users' = users
              /\ resp'.status = 200
              /\ "error" \in DOMAIN resp'.page
         ]_vars

\* two registrations of bob passed the lookups together; the second INSERT
\* was refused by the store
C23_AccountsUnique_reached ==
    /\ resp.ep = "register"
    /\ resp.body.username = "bob"
    /\ "error" \in DOMAIN resp.page
    /\ resp.page.error = "Failed to create account"
    /\ \E u \in users : u.username = "bob" /\ u.email # resp.body.email

\* C24: the card title is the first sentence of the raw text (text up to the
\* first '.', '!' or '?', or the whole trimmed text when there is none) with
\* whitespace runs collapsed; when longer than 100 characters it is cut back
\* to a word boundary within the first 100 characters and '...' is appended,
\* so a title never exceeds 103 characters.
C24_TitleIsFirstSentenceCutAtWord ==
    projected # None =>
       LET sentence == collapse_whitespace(strip(first_of_split(strip(projecting))))
           title == projected.title
       IN  /\ len(sentence) <= 100 => title = sentence
           /\ len(sentence) > 100 =>
                 \E k \in 1..Len(sentence) :
                    /\ sentence[k].kind = "word"
                    /\ len(SubSeq(sentence, 1, k)) <= 100
                    /\ title = SubSeq(sentence, 1, k) \o <<Run("stop", 3)>>
           /\ len(title) <= 103

\* C25: every login-protected route (/, /history, /profile, /update_password,
\* /predict, /clear_history, /admin) redirects to the login page and performs
\* no store read or write whenever the session holds no username, including
\* in any state reached after logout.
C25_NoSessionRedirectsToLogin ==
    [][ (resp'.ep \in LoginProtected /\ resp'.user = NoUser)
        => /\ resp'.status = 302
           /\ resp'.page = [redirect |-> "login"]
           /\ resp'.store = {}
           /\ UNCHANGED <<users, predictions, nextId, cache>>
      ]_vars

\* after the logout, a request to clear the history was sent to the login
\* page and alice's record is still stored
C25_NoSessionRedirectsToLogin_reached ==
    /\ \A c \in Clients : session[c] = NoUser
    /\ resp.ep = "clear_history"
    /\ resp.user = NoUser
    /\ resp.page = [redirect |-> "login"]
    /\ \E p \in predictions : p.username = "alice"

\* C26: a registration or login request with missing or empty fields never
\* raises and changes nothing: register creates an account only when username,
\* email and password are all non-empty, username has at least 3 and password
\* at least 6 characters, password equals its confirmation, and neither
\* username nor email is already taken; login sets the session only when the
\* stored password hash verifies.
C26_IncompleteFormsChangeNothing ==
    [][ /\ ( /\ resp'.ep \in {"register", "login"}
             /\ \E field \in DOMAIN resp'.body : StrLen(resp'.body[field]) = 0 )
           => /\ resp'.status = 200
              /\ "error" \in DOMAIN resp'.page
              /\ UNCHANGED <<users, predictions, session>>
        /\ \A u \in users' \ users :
             (\A v \in users : v.username # u.username) =>
                /\ resp'.ep = "register"
                /\ resp'.body.username = u.username /\ resp'.body.email = u.email
                /\ StrLen(u.username) >= 3 /\ StrLen(u.email) > 0
                /\ StrLen(resp'.body.password) >= 6
                /\ resp'.body.password = resp'.body.confirm_password
                /\ \A v \in users : v.email # u.email
        /\ \A c \in Clients :
             (session'[c] # session[c] /\ session'[c] # NoUser) =>
                /\ resp'.ep = "login"
                /\ resp'.body.username = session'[c]
                /\ \E u \in users : /\ u.username = session'[c]
                                     /\ check_password_hash(u.password,
                                                            resp'.body.password)
      ]_vars

\* a registration with no username was answered with the form and its
\* error, and nothing else than alice's account is stored
C26_IncompleteFormsChangeNothing_reached ==
    /\ resp.ep = "register"
    /\ resp.body.username = ""
    /\ resp.status = 200
    /\ "error" \in DOMAIN resp.page
    /\ resp.page.error = "Username is required"
    /\ \A u \in users : u.username = "alice"

\* C27: the admin view is restricted to admins: in every reachable state,
\* /admin returns the list of all users' prediction records only to a session
\* whose account has role admin; any other logged-in session gets 'Access
\* denied' and no records.
C27_AdminViewOnlyForRoleAdmin ==
    (resp.ep = "admin" /\ resp.user # NoUser) =>
       LET is_admin == \E u \in users : u.username = resp.user /\ u.role = "admin"
       IN  /\ "records" \in DOMAIN resp.page => is_admin
           /\ ~is_admin => resp.page = [text |-> "Access denied. Admins only."]

\* C28: update_password changes the logged-in user's stored password hash only
\* when the supplied current password verifies, the new password equals its
\* confirmation and has at least 6 characters; in every other case the stored
\* hash is unchanged, and no other user's hash is ever changed.
C28_PasswordChangedOnlyWhenVerified ==
    [][ \A u \in users, v \in users' :
          (u.username = v.username /\ u.password # v.password) =>
             /\ resp'.ep = "update_password"
             /\ resp'.user = u.username
             /\ verifies(u.password, resp'.body.current_password)
             /\ resp'.body.new_password = resp'.body.confirm_password
             /\ FieldLen(resp'.body.new_password) >= 6
             /\ v.password = generate_password_hash(resp'.body.new_password)
      ]_vars

\* C29: the legacy backfill (migrate_predictions) only sets fields that are
\* absent on a record and never changes the value of a field already present,
\* so running it a second time immediately after the first changes no record.
C29_BackfillOnlyAddsAndIsIdempotent ==
    [][ /\ \A d \in predictions :
             \E e \in predictions' :
                /\ e["_id"] = d["_id"]
                /\ \A k \in DOMAIN d : e[k] = d[k]
        /\ Cardinality(predictions') = Cardinality(predictions)
        /\ served >= 1 => predictions' = predictions
      ]_vars

\* the second run is over; the first had given a document that held only a
\* source its four other fields
C29_BackfillOnlyAddsAndIsIdempotent_reached ==
    /\ served = 2
    /\ \E d \in predictions :
          /\ DOMAIN d = {"_id", "prediction", "news"} \cup CardKeys
          /\ d.source = "Reuters"
          /\ d.confidence = 78
          /\ d.tags = <<"politics", "health">>

\* C30: a rate-limited client is admitted again as soon as fewer than
\* max_requests of its recorded timestamps lie within the trailing window:
\* rejected attempts are not recorded, so retrying while limited never extends
\* the lockout, and once window seconds pass after the oldest admitted request
\* ages out the next request succeeds.
C30_LockoutEndsWhenOldestAgesOut ==
    [][ \A w \in Workers :
          (req[w].pc = "rate" /\ req'[w].pc # "rate") =>
             LET r == req[w]
                 recorded == rate_limit_storage[r.ip]
                 Within(t) == r.cur_time - t < RATE_WINDOW
             IN  /\ Len(SelectSeq(recorded, Within)) < MaxRequests(r.ep) => Admits(w)
                 /\ Rejects(w) => rate_limit_storage'[r.ip] = SelectSeq(recorded, Within)
                 /\ ( /\ limited[r.ip] # None
                      /\ r.cur_time - limited[r.ip].oldest >= RATE_WINDOW )
                    => Admits(w)
      ]_vars

====
